---- MODULE Spec2Model ----
(***************************************************************************)
(* Sneaker-arbitrage ERP: spreadsheet ingestion (DataManager) and the      *)
(* arbitrage matcher (ArbitrageAnalyzer).                                  *)
(*                                                                         *)
(* Representation.                                                         *)
(*  - A JavaScript string is a sequence of characters.  An ASCII character *)
(*    is the one-character string itself; a CJK character is one atom      *)
(*    written in pinyin ("huo","hao" is the two-character word for SKU).   *)
(*  - A JavaScript number is an integer count of tenths (36 is 3.6), NaN   *)
(*    is the record NaN.  Money amounts that are products of two numbers   *)
(*    are counts of thousandths (costPrice, netRevenue, profit).           *)
(*  - A sheet cell is Undef, Num(v) or Str(s).                             *)
(***************************************************************************)
EXTENDS Integers, Sequences, FiniteSets, TLC

----------------------------------------------------------------------------
(* DataManager: state *)

VARIABLES
    data,                \* the record store (masterData of App)
    selectedPlatform,
    selectedType,
    pendingFiles,
    currentMappingFile,
    savedMappings,
    message,
    alertText,           \* the alert() the last handler showed, Null when none
    isConfirmingClear,
    errors,              \* the problems the last handler collected
    files,               \* the files the last handler was given to upload
    runs,                \* the runs of extractRecords the last handler made
    clicks,              \* handlers run so far
    results,             \* ArbitrageAnalyzer
    loading,
    errorMsg,
    chatInstance,
    chatHistory,
    chatInput,
    isChatting,
    arbRun,              \* the run of processArbitrage awaiting its sheet, or Null
    rowResults,          \* the result of every row the last run kept
    chatReqs,            \* the sendMessage calls awaiting their response
    exported             \* the table downloadCSV wrote last, or Null

dmVars == <<data, selectedPlatform, selectedType, pendingFiles, currentMappingFile,
            savedMappings, message, alertText, isConfirmingClear, errors, files, runs,
            clicks>>

chatVars == <<chatInput, isChatting, chatReqs>>

arbVars == <<results, loading, errorMsg, chatInstance, chatHistory, arbRun, rowResults,
             chatVars, exported>>

vars == <<dmVars, arbVars>>

----------------------------------------------------------------------------
(* JavaScript primitives used by the code *)

Undef == [t |-> "undef"]
Num(v) == [t |-> "num", v |-> v]
Str(s) == [t |-> "str", s |-> s]

NaN == [nan |-> TRUE, v |-> 0]
Val(v) == [nan |-> FALSE, v |-> v]

Digits == <<"0", "1", "2", "3", "4", "5", "6", "7", "8", "9">>
Lowers == <<"a", "b", "c", "d", "e", "f", "g", "h", "i", "j", "k", "l", "m",
            "n", "o", "p", "q", "r", "s", "t", "u", "v", "w", "x", "y", "z">>
Uppers == <<"A", "B", "C", "D", "E", "F", "G", "H", "I", "J", "K", "L", "M",
            "N", "O", "P", "Q", "R", "S", "T", "U", "V", "W", "X", "Y", "Z">>

IsDigit(c) == \E i \in 1..10 : Digits[i] = c
DigitVal(c) == (CHOOSE i \in 1..10 : Digits[i] = c) - 1

\* String.prototype.toUpperCase / toLowerCase, per character
UpperChar(c) == IF \E i \in 1..26 : Lowers[i] = c
                THEN Uppers[CHOOSE i \in 1..26 : Lowers[i] = c] ELSE c
LowerChar(c) == IF \E i \in 1..26 : Uppers[i] = c
                THEN Lowers[CHOOSE i \in 1..26 : Uppers[i] = c] ELSE c
toUpperCase(s) == SubSeq([i \in 1..Len(s) |-> UpperChar(s[i])], 1, Len(s))
toLowerCase(s) == SubSeq([i \in 1..Len(s) |-> LowerChar(s[i])], 1, Len(s))

\* String.prototype.trim
RECURSIVE trimStart(_)
trimStart(s) == IF Len(s) > 0 /\ s[1] = " " THEN trimStart(Tail(s)) ELSE s
RECURSIVE trimEnd(_)
trimEnd(s) == IF Len(s) > 0 /\ s[Len(s)] = " "
              THEN trimEnd(SubSeq(s, 1, Len(s) - 1)) ELSE s
trim(s) == trimEnd(trimStart(s))

\* String.prototype.includes
includes(s, k) == \E i \in 0..(Len(s) - Len(k)) : SubSeq(s, i + 1, i + Len(k)) = k

\* decimal digits of a natural number
RECURSIVE NatToStr(_)
NatToStr(n) == IF n < 10 THEN <<Digits[n + 1]>>
               ELSE NatToStr(n \div 10) \o <<Digits[(n % 10) + 1]>>

\* String(number): v is a count of tenths
NumToStr(v) ==
    LET a == IF v < 0 THEN -v ELSE v
        ip == NatToStr(a \div 10)
        fp == IF a % 10 = 0 THEN <<>> ELSE <<".", Digits[(a % 10) + 1]>>
    IN (IF v < 0 THEN <<"-">> ELSE <<>>) \o ip \o fp

\* String(x)
String(c) == CASE c.t = "undef" -> <<"u", "n", "d", "e", "f", "i", "n", "e", "d">>
               [] c.t = "num" -> NumToStr(c.v)
               [] c.t = "str" -> c.s

\* !x  (undefined, 0 and "" are falsy)
Falsy(c) == \/ c.t = "undef"
            \/ c.t = "num" /\ c.v = 0
            \/ c.t = "str" /\ c.s = <<>>

\* length of the leading run of decimal digits
RECURSIVE NumDigits(_)
NumDigits(s) == IF Len(s) > 0 /\ IsDigit(s[1]) THEN 1 + NumDigits(Tail(s)) ELSE 0

\* value of a run of decimal digits
RECURSIVE DigitsValue(_)
DigitsValue(s) == IF Len(s) = 0 THEN 0
                  ELSE DigitsValue(SubSeq(s, 1, Len(s) - 1)) * 10 + DigitVal(s[Len(s)])

\* parseFloat(string): leading blanks, sign, digits, optional fraction; the
\* longest numeric prefix is the value, none is NaN.  The value is kept to
\* one fractional digit (the sheets below use at most one).
\* the steps of the parse take what the earlier steps found as arguments:
\* the integer digits and the text after a ".", the text u after the
\* sign with its count ni of leading digits, the text t without leading blanks
FloatMagnitude(intDigits, frac) ==
    DigitsValue(intDigits) * 10 + (IF NumDigits(frac) > 0 THEN DigitVal(frac[1]) ELSE 0)
FloatSigned(neg, mag) == Val(IF neg THEN -mag ELSE mag)
FloatValue(neg, intDigits, frac) ==
    IF Len(intDigits) > 0 \/ NumDigits(frac) > 0
    THEN FloatSigned(neg, FloatMagnitude(intDigits, frac)) ELSE NaN
FloatRest(neg, intDigits, rest) ==
    FloatValue(neg, intDigits,
               IF Len(rest) > 0 /\ rest[1] = "." THEN Tail(rest) ELSE <<>>)
FloatDigits(neg, u, ni) == FloatRest(neg, SubSeq(u, 1, ni), SubSeq(u, ni + 1, Len(u)))
FloatUnsigned(neg, u) == FloatDigits(neg, u, NumDigits(u))
FloatTrimmed(t) ==
    FloatUnsigned(Len(t) > 0 /\ t[1] = "-",
                  IF Len(t) > 0 /\ t[1] \in {"-", "+"} THEN Tail(t) ELSE t)
parseFloat(s) == FloatTrimmed(trimStart(s))

\* isNaN(n) ? d : n
IfNaN(n, d) == IF n.nan THEN d ELSE n.v

\* Number(x) || d   and   parseFloat(x) || d
OrElse(n, d) == IF n.nan \/ n.v = 0 THEN d ELSE n.v

----------------------------------------------------------------------------
(* utils.ts *)

cleanProductCode(code) == IF Falsy(code) THEN <<>> ELSE toUpperCase(trim(String(code)))

\* index of the first digit of s, 0 when there is none
RECURSIVE FirstDigitPos(_, _)
FirstDigitPos(s, i) == IF i > Len(s) THEN 0
                       ELSE IF IsDigit(s[i]) THEN i ELSE FirstDigitPos(s, i + 1)

\* parseInt(match[0], 10) of the run of digits that starts run
LeadingInt(run) == DigitsValue(SubSeq(run, 1, NumDigits(run))) * 10
\* str.match(/\d+/) with p the place of the first digit of str
SalesMatch(str, p) == IF p = 0 THEN 0 ELSE LeadingInt(SubSeq(str, p, Len(str)))
SalesOfText(str) == SalesMatch(str, FirstDigitPos(str, 1))

extractSalesNum(raw) ==
    IF raw.t = "num" THEN raw.v
    ELSE IF Falsy(raw) THEN 0
    ELSE SalesOfText(String(raw))

parseDiscount(raw) ==
    IF Falsy(raw) THEN 100
    ELSE IfNaN(parseFloat(String(raw)), 100)

\* Number(x): the whole trimmed text must be a number, "" is 0
\* rest, the text after the integer digits, is nothing or one fraction digit
WholeNumber(rest) == rest = <<>> \/ (Len(rest) = 2 /\ rest[1] = "." /\ IsDigit(rest[2]))
\* u is the text t after its sign, ni the count of u's leading digits
NumberDigits(t, u, ni) ==
    IF ni > 0 /\ WholeNumber(SubSeq(u, ni + 1, Len(u))) THEN parseFloat(t) ELSE NaN
NumberUnsigned(t, u) == NumberDigits(t, u, NumDigits(u))
NumberOfText(t) ==
    IF t = <<>> THEN Val(0)
    ELSE NumberUnsigned(t, IF t[1] \in {"-", "+"} THEN Tail(t) ELSE t)
Number(c) ==
    CASE c.t = "undef" -> NaN
      [] c.t = "num" -> Val(c.v)
      [] c.t = "str" -> NumberOfText(trim(c.s))

\* JSON.stringify(row): strings quoted, undefined written null
JsonCell(c) == CASE c.t = "undef" -> <<"n", "u", "l", "l">>
                 [] c.t = "num" -> NumToStr(c.v)
                 [] c.t = "str" -> <<"\"">> \o c.s \o <<"\"">>
RECURSIVE JsonCells(_)
JsonCells(row) == IF Len(row) = 0 THEN <<>>
                  ELSE IF Len(row) = 1 THEN JsonCell(row[1])
                  ELSE JsonCell(row[1]) \o <<",">> \o JsonCells(Tail(row))
JSONstringify(row) == <<"[">> \o JsonCells(row) \o <<"]">>

\* the keyword lists of the code: of findHeaderRow, of autoDetectColumns
\* (SKU, size, price, discount, sales) and of the purchase sheet's column
\* detection (the SKU list again, tag price, discount, sales)
kwHeader == { <<"huo", "hao">>, <<"S", "K", "U">>, <<"kuan", "hao">>,
              <<"P", "r", "o", "d", "u", "c", "t", " ", "C", "o", "d", "e">>,
              <<"A", "r", "t", " ", "N", "o">>, <<"A", "R", "T", " ", "N", "O">> }
kwSku == { <<"huo", "hao">>, <<"S", "K", "U">>, <<"kuan", "hao">>,
           <<"P", "r", "o", "d", "u", "c", "t", " ", "C", "o", "d", "e">>,
           <<"A", "r", "t", " ", "N", "o">> }
kwSize == { <<"chi", "ma">>, <<"S", "i", "z", "e">>, <<"ma", "shu">> }
kwPrice == { <<"ping", "tai", "zui", "di", "jia">>, <<"P", "r", "i", "c", "e">>,
             <<"jia", "ge">>, <<"T", "a", "g", " ", "P", "r", "i", "c", "e">>,
             <<"pai", "jia">>, <<"yuan", "jia">> }
kwDiscount == { <<"ping", "tai", "ping", "jun", "xia", "dan", "zhe", "kou">>,
                <<"zhe", "kou">>, <<"D", "i", "s", "c", "o", "u", "n", "t">> }
kwSales == { <<"xiao", "liang">>, <<"S", "a", "l", "e", "s">>,
             <<"lei", "ji", "xiao", "liang">>, <<"re", "du">>, <<"ku", "cun">>,
             <<"Q", "u", "a", "n", "t", "i", "t", "y">> }
kwTagPrice == { <<"pai", "jia">>, <<"yuan", "jia">>,
                <<"T", "a", "g", " ", "P", "r", "i", "c", "e">>, <<"M", "S", "R", "P">>,
                <<"fa", "shou", "jia">> }
kwUploadDiscount == { <<"zhe", "kou">>, <<"D", "i", "s", "c", "o", "u", "n", "t">>,
                      <<"xia", "dan", "zhe", "kou">> }
kwUploadSales == { <<"xiao", "liang">>, <<"S", "a", "l", "e", "s">>,
                   <<"lei", "ji", "xiao", "liang">>, <<"jin", "3", "0", "tian", "xiao", "liang">>,
                   <<"re", "du">>, <<"ping", "tai", "xiao", "liang">> }

\* row[idx] with a 0-based JavaScript index; out of range is undefined
Cell(row, idx) == IF idx >= 0 /\ idx < Len(row) THEN row[idx + 1] ELSE Undef

\* the largest index in 0..Len(row)-1 whose trimmed text contains a keyword,
\* -1 when none: forEach assigns on every match, so the last match stays
\* the 0-based largest / smallest of a set of 1-based positions, d when empty
LowestOf(hits, d) == IF hits = {} THEN d ELSE (CHOOSE i \in hits : \A j \in hits : i <= j) - 1
LastOf(hits, d) == IF hits = {} THEN d ELSE (CHOOSE i \in hits : \A j \in hits : j <= i) - 1
FirstOf(hits, d) == IF hits = {} THEN d ELSE (CHOOSE i \in hits : \A j \in hits : i <= j) - 1

LastMatch(headerRow, kws) ==
    LastOf({i \in 1..Len(headerRow) : \E k \in kws : includes(trim(headerRow[i]), k)}, -1)

findHeaderRow(rawData) ==
    LET limit == IF Len(rawData) < 20 THEN Len(rawData) ELSE 20
        hit(i) == \E kw \in kwHeader :
                     includes(toLowerCase(JSONstringify(rawData[i])), toLowerCase(kw))
    IN FirstOf({i \in 1..limit : hit(i)}, 0)

\* rawData[headerIndex].map(c => String(c).trim())
TrimmedCells(row) == SubSeq([i \in 1..Len(row) |-> trim(String(row[i]))], 1, Len(row))
HeaderRow(rawData, headerIndex) == TrimmedCells(rawData[headerIndex + 1])

\* headerRow.join('|')
RECURSIVE join(_)
join(cells) == IF Len(cells) = 0 THEN <<>>
               ELSE IF Len(cells) = 1 THEN cells[1]
               ELSE cells[1] \o <<"|">> \o join(Tail(cells))

----------------------------------------------------------------------------
(* types.ts *)

MARKET == "market"
SUPPLIER == "supplier"
INVENTORY == "inventory"
FUTURE == "future"
DataType == {MARKET, SUPPLIER, INVENTORY, FUTURE}

----------------------------------------------------------------------------
(* DataManager: record extraction *)

\* pVal === undefined || String(pVal).trim() === ''
Blank(c) == c.t = "undef" \/ trim(String(c)) = <<>>

\* one validation message: row number, SKU, what is wrong, the raw value
Problem(n, sku, kind, val) == [row |-> n, sku |-> sku, kind |-> kind, val |-> val]

\* the cells the body of the row loop reads, and what its parses make of
\* them: xGiven is the condition under which the code looks at cell x
RowCells(row, map) ==
    [ sku |-> cleanProductCode(Cell(row, map.sku)),
      pVal |-> Cell(row, map.price),
      pGiven |-> map.price # -1 /\ ~Blank(Cell(row, map.price)),
      pNum |-> parseFloat(String(Cell(row, map.price))),
      dVal |-> Cell(row, map.discount),
      dGiven |-> map.discount # -1 /\ ~Blank(Cell(row, map.discount)),
      dNum |-> parseFloat(String(Cell(row, map.discount))),
      discount |-> parseDiscount(Cell(row, map.discount)),
      sGiven |-> map.sales # -1 /\ Cell(row, map.sales) # Undef,
      salesRaw |-> String(Cell(row, map.sales)),
      salesNum |-> extractSalesNum(Str(String(Cell(row, map.sales)))),
      zGiven |-> map.size # -1 /\ Cell(row, map.size) # Undef,
      size |-> String(Cell(row, map.size)) ]

\* 1. price validation, for row number n
PriceProblems(c, n, map, type) ==
    IF map.price = -1 THEN <<>>
    ELSE IF c.pGiven
    THEN (IF c.pNum.nan THEN <<Problem(n, c.sku, "priceFormat", c.pVal)>>
          ELSE IF c.pNum.v < 0 THEN <<Problem(n, c.sku, "priceNegative", c.pVal)>>
          ELSE <<>>)
    ELSE IF type = MARKET THEN <<Problem(n, c.sku, "priceMissing", c.pVal)>>
    ELSE <<>>

\* a negative price taken over
PriceOkAnyNumber(c) == c.pGiven /\ ~c.pNum.nan

\* line 350 is reached
PriceOk(c) == c.pGiven /\ ~c.pNum.nan /\ c.pNum.v >= 0

\* 2. discount validation, for row number n
DiscountProblems(c, n) ==
    IF c.dGiven /\ c.dNum.nan THEN <<Problem(n, c.sku, "discountFormat", c.dVal)>> ELSE <<>>

\* the record of the row at 0-based index i.  priceSrc is a history field:
\* "cell" when line 350 assigned the price, "default" when the initial value
\* of line 332 was kept
RowRecord(c, i, fileName, platform, type, day) ==
    [ row |-> i,
      productCode |-> c.sku,
      size |-> IF c.zGiven THEN c.size ELSE <<"-">>,
      price |-> IF PriceOk(c) THEN c.pNum.v ELSE 0,
      priceSrc |-> IF PriceOk(c) THEN "cell" ELSE "default",
      discount |-> IF c.dGiven /\ ~c.dNum.nan THEN c.discount ELSE 100,
      salesRaw |-> IF c.sGiven THEN c.salesRaw ELSE <<"0">>,
      salesNum |-> IF c.sGiven THEN c.salesNum ELSE 0,
      platform |-> platform,
      sourceFile |-> fileName,
      dataType |-> type,
      updateDate |-> day ]

\* the continue of the price validation only
RowOutcomePriceOnly(priceErr, discErr, record, type) ==
    IF priceErr # <<>> /\ type = MARKET
    THEN [records |-> <<>>, errors |-> priceErr]
    ELSE [records |-> <<record>>, errors |-> priceErr \o discErr]

\* the continue statements of the two validations
RowOutcome(priceErr, discErr, record, type) ==
    IF priceErr # <<>> /\ type = MARKET
    THEN [records |-> <<>>, errors |-> priceErr]
    ELSE IF discErr # <<>> /\ type = SUPPLIER
    THEN [records |-> <<>>, errors |-> priceErr \o discErr]
    ELSE [records |-> <<record>>, errors |-> priceErr \o discErr]

\* the body of the row loop once the SKU is known not to be empty
ExtractCells(c, i, map, fileName, platform, type, day) ==
    RowOutcome(PriceProblems(c, i + 1, map, type), DiscountProblems(c, i + 1),
               RowRecord(c, i, fileName, platform, type, day), type)

\* the body of the row loop for the row at 0-based index i
ExtractRow(row, i, map, fileName, platform, type, day) ==
    IF \/ Len(row) = 0
       \/ map.sku = -1
       \/ Cell(row, map.sku) = Undef
       \/ cleanProductCode(Cell(row, map.sku)) = <<>>
    THEN [records |-> <<>>, errors |-> <<>>]
    ELSE ExtractCells(RowCells(row, map), i, map, fileName, platform, type, day)

\* newRecords and validationErrors after one row and then the rows after it
Both(one, rest) ==
    [records |-> one.records \o rest.records, errors |-> one.errors \o rest.errors]

\* rows i..last of the loop (0-based i)
RECURSIVE ExtractFrom(_, _, _, _, _, _, _)
ExtractFrom(rawData, i, map, fileName, platform, type, day) ==
    IF i >= Len(rawData) THEN [records |-> <<>>, errors |-> <<>>]
    ELSE Both(ExtractRow(rawData[i + 1], i, map, fileName, platform, type, day),
              ExtractFrom(rawData, i + 1, map, fileName, platform, type, day))

extractRecords(rawData, headerIndex, map, fileName, platform, type, day) ==
    ExtractFrom(rawData, headerIndex + 1, map, fileName, platform, type, day)

\* history field batch: the upload (the click that selected the files) a
\* record came in with; for a manual entry the click that saved it
InBatch(records, batch) ==
    [i \in 1..Len(records) |->
        [ row |-> records[i].row,
          productCode |-> records[i].productCode,
          size |-> records[i].size,
          price |-> records[i].price,
          priceSrc |-> records[i].priceSrc,
          discount |-> records[i].discount,
          salesRaw |-> records[i].salesRaw,
          salesNum |-> records[i].salesNum,
          platform |-> records[i].platform,
          sourceFile |-> records[i].sourceFile,
          dataType |-> records[i].dataType,
          updateDate |-> records[i].updateDate,
          batch |-> batch ]]

autoDetectColumns(headerRow) ==
    [ sku |-> LastMatch(headerRow, kwSku),
      size |-> LastMatch(headerRow, kwSize),
      price |-> LastMatch(headerRow, kwPrice),
      discount |-> LastMatch(headerRow, kwDiscount),
      sales |-> LastMatch(headerRow, kwSales) ]

----------------------------------------------------------------------------
(* Bounds and inputs *)

MaxBatch == 2       \* files selected in one upload
MaxClicks == 4      \* handlers run in one session
Today == 1          \* new Date(), as a day number

Null == [t |-> "null"]
ManualEntry == "Manual Entry"


\* the sheets a user can select, as readExcelFile delivers them
\*   a.xlsx  header (SKU, price, discount, size, size), one good row
\*           without a discount cell and one with a negative price and a
\*           discount text
\*   b.xlsx  header without any keyword, a bad price text and a good row
\*   c.xlsx  the header of b.xlsx, a row without a price cell
\*   d.xlsx  a title row, then header (SKU, discount, sales)
\*   e.xlsx  no rows at all
Sheets ==
    [ a |-> [ name |-> "a.xlsx",
              rawData |-> << <<Str(<<"huo", "hao">>), Str(<<" ", "jia", "ge">>),
                               Str(<<"zhe", "kou">>), Str(<<"chi", "ma">>),
                               Str(<<"S", "i", "z", "e">>)>>,
                             <<Str(<<" ", "a", "b", "1">>), Num(10000)>>,
                             <<Str(<<"A", "2">>), Num(-500), Str(<<"x">>)>> >> ],
      b |-> [ name |-> "b.xlsx",
              rawData |-> << <<Str(<<"I", "D">>), Str(<<"R", "M", "B">>)>>,
                             <<Str(<<"A", "2">>), Str(<<"x", "9">>)>>,
                             <<Str(<<"A", "3">>), Num(20000)>> >> ],
      c |-> [ name |-> "c.xlsx",
              rawData |-> << <<Str(<<"I", "D">>), Str(<<"R", "M", "B">>)>>,
                             <<Str(<<"A", "B", "1">>)>> >> ],
      d |-> [ name |-> "d.xlsx",
              rawData |-> << <<Str(<<"2", "0", "2", "5">>)>>,
                             <<Str(<<"S", "K", "U">>), Str(<<"zhe", "kou">>),
                               Str(<<"lei", "ji", "xiao", "liang">>)>>,
                             <<Str(<<"A", "B", "1">>), Num(36), Str(<<"3", "0", "+">>)>>,
                             <<Str(<<"A", "3">>), Str(<<"x">>), Undef>> >> ],
      e |-> [ name |-> "e.xlsx", rawData |-> << >> ] ]

FileKeys == DOMAIN Sheets

\* e.target.files: up to MaxBatch distinct files
Batches == {fs \in UNION {[1..n -> FileKeys] : n \in 1..MaxBatch} :
               \A i, j \in 1..Len(fs) : i # j => fs[i] # fs[j]}

Platforms == {"Tianma", "Dewu"}

\* what the selects of the mapping dialog can hold when confirm is clicked
\* (the selects' onChange setters; the value of an option is its index)
NoCol == <<>>
ColMappings ==
    { [sku |-> NoCol, size |-> NoCol, price |-> <<"1">>, discount |-> NoCol, sales |-> NoCol],
      [sku |-> <<"0">>, size |-> NoCol, price |-> <<"1">>, discount |-> NoCol, sales |-> NoCol],
      [sku |-> <<"0">>, size |-> NoCol, price |-> NoCol, discount |-> NoCol, sales |-> NoCol] }

\* what the manual-entry table can hold when save is clicked
ManualRow(code, price, discount, sales) ==
    [productCode |-> code, size |-> <<>>, price |-> price, discount |-> discount,
     salesRaw |-> sales]
ManualForms ==
    { << ManualRow(<<>>, Num(0), Num(100), Str(<<"0">>)) >>,
      << ManualRow(<<" ", "a", "2">>, Str(<<"-", "5">>), Str(<<"3", ".", "6">>), Str(<<"7">>)),
         ManualRow(<<" ">>, Num(0), Num(100), Str(<<"0">>)) >> }

Range(f) == {f[i] : i \in DOMAIN f}

----------------------------------------------------------------------------
(* DataManager: handlers *)

\* colMapping.x ? parseInt(colMapping.x) : -1
parseInt(s) == DigitsValue(SubSeq(s, 1, NumDigits(s)))
ColIndex(s) == IF s = <<>> THEN -1 ELSE parseInt(s)

\* the map object the confirm handler builds from the dialog
MapOf(colMapping) ==
    [sku |-> parseInt(colMapping.sku),
     size |-> ColIndex(colMapping.size),
     price |-> ColIndex(colMapping.price),
     discount |-> ColIndex(colMapping.discount),
     sales |-> ColIndex(colMapping.sales)]

\* what the upload handler derives from a sheet before it looks at the
\* mapping memory: header index, trimmed header row, signature, guess
HeaderInfo(headerIndex, headerRow) ==
    [empty |-> FALSE,
     headerIndex |-> headerIndex,
     headerSignature |-> join(headerRow),
     autoMap |-> autoDetectColumns(headerRow)]
HeaderAt(rawData, headerIndex) == HeaderInfo(headerIndex, HeaderRow(rawData, headerIndex))
SheetInfo(rawData) ==
    IF Len(rawData) = 0 THEN [empty |-> TRUE] ELSE HeaderAt(rawData, findHeaderRow(rawData))
FileInfo == [key \in FileKeys |-> SheetInfo(Sheets[key].rawData)]

\* extractRecords is a function of its arguments; its values for the sheets
\* and mappings that occur are tabulated once
MapsUsed == {FileInfo[key].autoMap : key \in {k \in FileKeys : ~FileInfo[k].empty}}
            \cup {MapOf(cm) : cm \in {c \in ColMappings : c.sku # <<>>}}
ExtractTable ==
    [key \in {k \in FileKeys : ~FileInfo[k].empty}, map \in MapsUsed,
     platform \in Platforms, type \in DataType |->
        extractRecords(Sheets[key].rawData, FileInfo[key].headerIndex, map,
                       Sheets[key].name, platform, type, Today)]

\* savedMappings.find(m => m.signature === headerSignature)
FindSaved(saved, signature) ==
    LET hits == {i \in 1..Len(saved) : saved[i].signature = signature}
    IN IF hits = {} THEN Null ELSE saved[CHOOSE i \in hits : \A j \in hits : i <= j]

\* the trust in a remembered mapping left out
IsCompleteNoBypass(colMap, type, usedSavedMap) ==
    /\ colMap.sku # -1
    /\ ~(type = MARKET /\ colMap.price = -1)
    /\ ~(type \in {INVENTORY, FUTURE} /\ colMap.sales = -1)

\* the SKU column left out of the check
IsCompleteNoSku(colMap, type, usedSavedMap) ==
    \/ usedSavedMap
    \/ /\ ~(type = MARKET /\ colMap.price = -1)
       /\ ~(type \in {INVENTORY, FUTURE} /\ colMap.sales = -1)

\* the futures category left out of the sales requirement
IsCompleteInventoryOnly(colMap, type, usedSavedMap) ==
    \/ usedSavedMap
    \/ /\ colMap.sku # -1
       /\ ~(type = MARKET /\ colMap.price = -1)
       /\ ~(type = INVENTORY /\ colMap.sales = -1)

\* the mandatory-field check of the upload handler
IsComplete(colMap, type, usedSavedMap) ==
    \/ usedSavedMap
    \/ /\ colMap.sku # -1
       /\ ~(type = MARKET /\ colMap.price = -1)
       /\ ~(type \in {INVENTORY, FUTURE} /\ colMap.sales = -1)

\* a run of extractRecords, as the history variable runs keeps it: how the
\* mapping was come by, the arguments of the call (sheet, channel, category,
\* mapping), the header signature of the sheet, whether the mapping was to be
\* remembered, the number of records the run returned
Run(how, call, signature, map, remember, out) ==
    [how |-> how, key |-> call.key, platform |-> call.platform, type |-> call.type,
     signature |-> signature, map |-> map, remember |-> remember,
     produced |-> Len(out.records)]

\* the file is extracted at once under colMap and gave out; acc holds
\* allNewRecords, successCount, mappingQueue and errors
AutoExtract(acc, call, info, out, now, colMap, usedSavedMap) ==
    [acc EXCEPT
        !.runs = Append(@, Run(IF usedSavedMap THEN "remembered" ELSE "detected", call,
                               info.headerSignature, colMap, FALSE, out)),
        !.errors = IF Len(out.errors) > 0
                   THEN @ \o <<[file |-> Sheets[call.key].name, kind |-> "warnings", problems |-> out.errors]>>
                   ELSE @,
        !.allNewRecords = @ \o InBatch(out.records, now),
        !.successCount = IF Len(out.records) > 0 THEN @ + 1 ELSE @]

\* the file joins the mapping queue with the guess colMap
Enqueue(acc, key, i, now, info, colMap) ==
    [acc EXCEPT
        !.mappingQueue = @ \o <<[id |-> i, file |-> key, batch |-> now,
                                 guessedHeaderIndex |-> info.headerIndex,
                                 headerSignature |-> info.headerSignature,
                                 autoMap |-> colMap]>>]

\* the file under the mapping chosen for it
UploadMapped(acc, key, i, platform, type, now, info, colMap, usedSavedMap) ==
    IF IsComplete(colMap, type, usedSavedMap)
    THEN AutoExtract(acc, [key |-> key, platform |-> platform, type |-> type], info,
                     ExtractTable[key, colMap, platform, type], now, colMap, usedSavedMap)
    ELSE Enqueue(acc, key, i, now, info, colMap)

\* savedMap is the remembered mapping of the file's signature, or Null
UploadRead(acc, key, i, platform, type, now, info, savedMap) ==
    UploadMapped(acc, key, i, platform, type, now, info,
                 IF savedMap # Null THEN savedMap.map ELSE info.autoMap, savedMap # Null)

\* one pass of the file loop, info being what the sheet was read as
UploadSheet(acc, key, i, platform, type, saved, now, info) ==
    IF info.empty
    THEN [acc EXCEPT !.errors = @ \o <<[file |-> Sheets[key].name, kind |-> "empty"]>>]
    ELSE UploadRead(acc, key, i, platform, type, now, info,
                    FindSaved(saved, info.headerSignature))

UploadFile(acc, key, i, platform, type, saved, now) ==
    UploadSheet(acc, key, i, platform, type, saved, now, FileInfo[key])

RECURSIVE UploadLoop(_, _, _, _, _, _, _)
UploadLoop(acc, fs, i, platform, type, saved, now) ==
    IF i > Len(fs) THEN acc
    ELSE UploadLoop(UploadFile(acc, fs[i], i, platform, type, saved, now),
                    fs, i + 1, platform, type, saved, now)

UploadOutcome(fs, platform, type, saved, now) ==
    UploadLoop([allNewRecords |-> <<>>, successCount |-> 0, mappingQueue |-> <<>>,
                errors |-> <<>>, runs |-> <<>>], fs, 1, platform, type, saved, now)

\* every record of the channel replaced, whatever its category
OtherThanPlatform(prev, platform, type) == SelectSeq(prev, LAMBDA p : p.platform # platform)

\* prev.filter(p => !(p.platform === selectedPlatform && p.dataType === selectedType))
OtherThan(prev, platform, type) ==
    SelectSeq(prev, LAMBDA p : ~(p.platform = platform /\ p.dataType = type))

\* the message the upload handler leaves
UploadMessage(out) ==
    IF Len(out.mappingQueue) > 0
    THEN (IF out.successCount > 0
          THEN [type |-> "success", kind |-> "autoImported",
                successCount |-> out.successCount, remaining |-> Len(out.mappingQueue)]
          ELSE Null)
    ELSE IF Len(out.errors) > 0
    THEN [type |-> "error", kind |-> "problems", errors |-> out.errors]
    ELSE [type |-> "success", kind |-> "batchOk",
          successCount |-> out.successCount, rows |-> Len(out.allNewRecords)]

\* a handler of the data centre starts: one more of the session's MaxClicks,
\* and the analyzer is left alone
Click == clicks < MaxClicks /\ clicks' = clicks + 1 /\ UNCHANGED arbVars

\* the whole handler; the mapping dialog covers the page while a file is
\* awaiting mapping, so the file input is reachable only without it
\* what the handler does with the outcome of its file loop
UploadCommit(out) ==
    /\ data' = IF Len(out.allNewRecords) > 0
               THEN OtherThan(data, selectedPlatform, selectedType) \o out.allNewRecords
               ELSE data
    /\ pendingFiles' = out.mappingQueue
    /\ currentMappingFile' = IF Len(out.mappingQueue) > 0 THEN out.mappingQueue[1] ELSE Null
    /\ message' = UploadMessage(out)
    /\ errors' = out.errors
    /\ runs' = out.runs

handleFileUpload(fs) ==
    /\ Click
    /\ currentMappingFile = Null
    /\ UploadCommit(UploadOutcome(fs, selectedPlatform, selectedType, savedMappings, clicks))
    /\ alertText' = Null
    /\ files' = fs
    /\ UNCHANGED <<selectedPlatform, selectedType, savedMappings, isConfirmingClear>>

\* the whole queue given up with the file
RemainingNone(pending, current) == <<>>

\* pendingFiles.filter(f => f.id !== currentMappingFile.id)
Remaining(pending, current) == SelectSeq(pending, LAMBDA f : f.id # current.id)

\* errors.slice(0, 10) and whether the "more not shown" line is added
AlertOfErrors(count, errs) ==
    [kind |-> "problems", imported |-> count,
     problems |-> SubSeq(errs, 1, IF Len(errs) < 10 THEN Len(errs) ELSE 10),
     more |-> Len(errs) > 10]

\* the entry of an earlier confirmation of the signature left in place
RememberAppend(saved, signature, map) ==
    saved \o <<[signature |-> signature, map |-> map,
                replaced |-> \E k \in 1..Len(saved) : saved[k].signature = signature]>>

\* savedMappings.filter(m => m.signature !== signature) with the new entry;
\* replaced is a history field: the signature had been remembered before
Remember(saved, signature, map) ==
    SelectSeq(saved, LAMBDA m : m.signature # signature)
    \o <<[signature |-> signature, map |-> map,
          replaced |-> \E k \in 1..Len(saved) : saved[k].signature = signature]>>

\* the handler once extraction under map has given out
ConfirmCommit(map, out, remaining, rememberMapping) ==
    /\ data' = IF Len(out.records) > 0
               THEN data \o InBatch(out.records, currentMappingFile.batch)
               ELSE data
    /\ errors' = out.errors
    /\ runs' = <<Run("confirmed",
                     [key |-> currentMappingFile.file, platform |-> selectedPlatform,
                      type |-> selectedType],
                     currentMappingFile.headerSignature, map, rememberMapping, out)>>
    /\ alertText' = IF Len(out.errors) > 0
                    THEN AlertOfErrors(Len(out.records), out.errors)
                    ELSE Null
    /\ savedMappings' =
         IF rememberMapping
         THEN Remember(savedMappings, currentMappingFile.headerSignature, map)
         ELSE savedMappings
    /\ pendingFiles' = remaining
    /\ currentMappingFile' = IF Len(remaining) > 0 THEN remaining[1] ELSE Null
    /\ message' = IF Len(remaining) > 0 THEN message
                  ELSE [type |-> "success", kind |-> "allMapped"]

\* the handler with the map object built
ConfirmMapped(map, rememberMapping) ==
    ConfirmCommit(map,
                  ExtractTable[currentMappingFile.file, map, selectedPlatform, selectedType],
                  Remaining(pendingFiles, currentMappingFile), rememberMapping)

handleConfirmMapping(colMapping, rememberMapping) ==
    /\ Click
    /\ currentMappingFile # Null
    /\ IF colMapping.sku = <<>>
       THEN /\ alertText' = [kind |-> "needSku"]
            /\ errors' = <<>>
            /\ runs' = <<>>
            /\ UNCHANGED <<data, pendingFiles, currentMappingFile, savedMappings, message>>
       ELSE ConfirmMapped(MapOf(colMapping), rememberMapping)
    /\ files' = <<>>
    /\ UNCHANGED <<selectedPlatform, selectedType, isConfirmingClear>>

\* the dialog closed with files left in the queue
NextInQueueClosed(remaining) ==
    /\ pendingFiles' = remaining
    /\ currentMappingFile' = Null

\* the queue moves on to remaining
NextInQueue(remaining) ==
    /\ pendingFiles' = remaining
    /\ currentMappingFile' = IF Len(remaining) > 0 THEN remaining[1] ELSE Null

handleSkipFile ==
    /\ Click
    /\ currentMappingFile # Null
    /\ NextInQueue(Remaining(pendingFiles, currentMappingFile))
    /\ alertText' = Null
    /\ errors' = <<>>
    /\ files' = <<>>
    /\ runs' = <<>>
    /\ UNCHANGED <<data, selectedPlatform, selectedType, savedMappings, message,
                   isConfirmingClear>>

\* one record of the manual-entry table
ManualRecord(r, platform, type, day, batch) ==
    [ row |-> -1,
      productCode |-> cleanProductCode(Str(r.productCode)),
      size |-> IF r.size = <<>> THEN <<"-">> ELSE r.size,
      price |-> OrElse(Number(r.price), 0),
      priceSrc |-> "form",
      discount |-> OrElse(Number(r.discount), 100),
      salesRaw |-> IF Falsy(r.salesRaw) THEN <<"0">> ELSE String(r.salesRaw),
      salesNum |-> extractSalesNum(r.salesRaw),
      platform |-> platform,
      sourceFile |-> ManualEntry,
      dataType |-> type,
      updateDate |-> day,
      batch |-> batch ]

\* manualRows.filter(r => r.productCode && r.productCode.trim() !== '')
ValidRows(manualRows) ==
    SelectSeq(manualRows, LAMBDA r : r.productCode # <<>> /\ trim(r.productCode) # <<>>)

\* the handler with the valid rows of the table
SaveValid(validRows) ==
    IF Len(validRows) = 0
    THEN /\ message' = [type |-> "error", kind |-> "noValidRow"]
         /\ UNCHANGED data
    ELSE /\ data' = data \o [i \in 1..Len(validRows) |->
                                ManualRecord(validRows[i], selectedPlatform, selectedType,
                                             Today, clicks)]
         /\ message' = [type |-> "success", kind |-> "manualSaved", rows |-> Len(validRows)]

saveManualData(manualRows) ==
    /\ Click
    /\ currentMappingFile = Null
    /\ SaveValid(ValidRows(manualRows))
    /\ alertText' = Null
    /\ errors' = <<>>
    /\ files' = <<>>
    /\ runs' = <<>>
    /\ UNCHANGED <<selectedPlatform, selectedType, pendingFiles, currentMappingFile,
                   savedMappings, isConfirmingClear>>

handleClearRequest ==
    /\ Click
    /\ currentMappingFile = Null
    /\ ~isConfirmingClear
    /\ isConfirmingClear' = TRUE
    /\ alertText' = Null
    /\ errors' = <<>>
    /\ files' = <<>>
    /\ runs' = <<>>
    /\ UNCHANGED <<data, selectedPlatform, selectedType, pendingFiles, currentMappingFile,
                   savedMappings, message>>

handleConfirmClear ==
    /\ Click
    /\ currentMappingFile = Null
    /\ isConfirmingClear
    /\ data' = <<>>
    /\ message' = [type |-> "success", kind |-> "cleared"]
    /\ isConfirmingClear' = FALSE
    /\ alertText' = Null
    /\ errors' = <<>>
    /\ files' = <<>>
    /\ runs' = <<>>
    /\ UNCHANGED <<selectedPlatform, selectedType, pendingFiles, currentMappingFile,
                   savedMappings>>

handleCancelClear ==
    /\ Click
    /\ currentMappingFile = Null
    /\ isConfirmingClear
    /\ isConfirmingClear' = FALSE
    /\ alertText' = Null
    /\ errors' = <<>>
    /\ files' = <<>>
    /\ runs' = <<>>
    /\ UNCHANGED <<data, selectedPlatform, selectedType, pendingFiles, currentMappingFile,
                   savedMappings, message>>

setSelectedPlatform(p) ==
    /\ Click
    /\ currentMappingFile = Null
    /\ p # selectedPlatform
    /\ selectedPlatform' = p
    /\ alertText' = Null
    /\ errors' = <<>>
    /\ files' = <<>>
    /\ runs' = <<>>
    /\ UNCHANGED <<data, selectedType, pendingFiles, currentMappingFile, savedMappings,
                   message, isConfirmingClear>>

setSelectedType(t) ==
    /\ Click
    /\ currentMappingFile = Null
    /\ t # selectedType
    /\ selectedType' = t
    /\ alertText' = Null
    /\ errors' = <<>>
    /\ files' = <<>>
    /\ runs' = <<>>
    /\ UNCHANGED <<data, selectedPlatform, pendingFiles, currentMappingFile, savedMappings,
                   message, isConfirmingClear>>

----------------------------------------------------------------------------
(* ArbitrageAnalyzer: the matching run *)

\* the column detection of the purchase sheet
detectColumns(headerRow) ==
    [ skuIdx |-> LastMatch(headerRow, kwSku),
      tagPriceIdx |-> LastMatch(headerRow, kwTagPrice),
      discountIdx |-> LastMatch(headerRow, kwUploadDiscount),
      salesIdx |-> LastMatch(headerRow, kwUploadSales) ]

\* masterData.filter(d => d.productCode === sku && d.dataType === type)
Matches(masterData, sku, type) ==
    SelectSeq(masterData, LAMBDA d : d.productCode = sku /\ d.dataType = type)

\* the records counted rather than their sales
SumSalesCount(recs) == Len(recs)

\* .reduce((sum, r) => sum + r.salesNum, 0)
RECURSIVE SumSales(_)
SumSales(recs) == IF Len(recs) = 0 THEN 0 ELSE recs[1].salesNum + SumSales(Tail(recs))

\* tagPrice * (effectiveDiscount / 10), in thousandths
CostPrice(tagPrice, effectiveDiscount) == tagPrice * effectiveDiscount

\* the platform fee left out
NetRevenueNoFee(marketPrice) == IF marketPrice > 0 THEN marketPrice * 100 ELSE 0

\* marketPrice > 0 ? marketPrice * 0.88 : 0, in thousandths
NetRevenue(marketPrice) == IF marketPrice > 0 THEN marketPrice * 88 ELSE 0

\* an unmatched row shown as break-even
ProfitUnmatchedZero(marketPrice, netRevenue, costPrice) ==
    IF marketPrice > 0 THEN netRevenue - costPrice ELSE 0

\* marketPrice > 0 ? (netRevenue - costPrice) : -costPrice
Profit(marketPrice, netRevenue, costPrice) ==
    IF marketPrice > 0 THEN netRevenue - costPrice ELSE -costPrice

\* the market price left out of the guard
RoiNoMarketCheck(costPrice, marketPrice, profit) ==
    IF costPrice > 0 THEN (profit * 1000) \div costPrice ELSE 0

\* (costPrice > 0 && marketPrice > 0) ? (profit / costPrice) : 0, in thousandths
\* rounded down
Roi(costPrice, marketPrice, profit) ==
    IF costPrice > 0 /\ marketPrice > 0 THEN (profit * 1000) \div costPrice ELSE 0

\* uniqueHistoryMap.set(key, item): a Map keeps the place of a key it has
HistorySet(items, m) ==
    LET item == [date |-> m.updateDate, file |-> m.sourceFile, sales |-> m.salesNum,
                 platform |-> m.platform]
        same(h) == h.date = item.date /\ h.file = item.file /\ h.platform = item.platform
        at == {i \in 1..Len(items) : same(items[i])}
    IN IF at = {} THEN Append(items, item)
       ELSE LET i == CHOOSE k \in at : TRUE
            IN IF m.salesNum > items[i].sales THEN [items EXCEPT ![i] = item] ELSE items

RECURSIVE UniqueHistory(_, _)
UniqueHistory(items, historyMatches) ==
    IF Len(historyMatches) = 0 THEN items
    ELSE UniqueHistory(HistorySet(items, historyMatches[1]), Tail(historyMatches))

\* Array.prototype.sort with a comparator: stable; a negative value of
\* cmp(a, b) puts a first
StableSort(seq, cmp(_, _)) ==
    LET n == Len(seq)
        before(j, i) == cmp(seq[j], seq[i]) < 0 \/ (cmp(seq[j], seq[i]) = 0 /\ j < i)
        rank(i) == Cardinality({j \in 1..n : j # i /\ before(j, i)}) + 1
    IN SubSeq([k \in 1..n |-> seq[CHOOSE i \in 1..n : rank(i) = k]], 1, n)

\* the oldest entry first
compareDateAscending(a, b) == a.date - b.date

\* (a, b) => new Date(b.date).getTime() - new Date(a.date).getTime()
compareDate(a, b) == b.date - a.date

\* the comparison turned around
compareProfitAscending(a, b) == a.profit - b.profit

\* (a, b) => b.profit - a.profit
compareProfit(a, b) == b.profit - a.profit

\* the least element of a non-empty set of numbers
MinOf(xs) == CHOOSE x \in xs : \A y \in xs : x <= y

\* Math.max(...xs) of a non-empty list
MaxOf(xs) == CHOOSE x \in Range(xs) : \A y \in Range(xs) : y <= x

\* hasUploadDiscount ? parseDiscount(row[discountIdx]) : 10
EffectiveDiscount(row, cols) ==
    LET discountCell == Cell(row, cols.discountIdx)
        hasUploadDiscount == cols.discountIdx # -1 /\ discountCell # Undef
    IN IF hasUploadDiscount THEN parseDiscount(discountCell) ELSE 100

\* the latest market record taken
MarketPriceLast(marketMatches) ==
    IF Len(marketMatches) > 0 THEN marketMatches[Len(marketMatches)].price ELSE 0

\* marketMatches.length > 0 ? marketMatches[0].price : 0
MarketPrice(marketMatches) == IF Len(marketMatches) > 0 THEN marketMatches[1].price ELSE 0

\* salesIdx !== -1 && row[salesIdx] !== undefined && String(row[salesIdx]).trim() !== ''
HasUploadSales(row, cols) ==
    /\ cols.salesIdx # -1
    /\ Cell(row, cols.salesIdx) # Undef
    /\ trim(String(Cell(row, cols.salesIdx))) # <<>>

\* scenario A: the sheet's own sales figure is the only history entry
UploadSales(uploadSales, fileName, day) ==
    [ supplierName |-> "upload",
      salesVolume |-> uploadSales,
      salesHistory |-> <<[date |-> day, file |-> fileName, sales |-> uploadSales,
                          platform |-> "upload"]>> ]

\* the store's records with sales for a SKU
HistoryMatches(masterData, sku) ==
    SelectSeq(masterData, LAMBDA d : d.productCode = sku /\ d.salesNum > 0
                                     /\ d.dataType \in {SUPPLIER, MARKET})

\* scenario B: the history found in the store, already deduplicated and sorted
StoreSales(dbHistory) ==
    [ supplierName |-> "history",
      salesVolume |-> IF Len(dbHistory) > 0
                      THEN MaxOf([i \in 1..Len(dbHistory) |-> dbHistory[i].sales])
                      ELSE 0,
      salesHistory |-> dbHistory ]

\* 4. sales history logic
SalesOf(row, cols, masterData, sku, fileName, day) ==
    IF HasUploadSales(row, cols)
    THEN UploadSales(extractSalesNum(Cell(row, cols.salesIdx)), fileName, day)
    ELSE StoreSales(StableSort(UniqueHistory(<<>>, HistoryMatches(masterData, sku)),
                               compareDate))

\* the result object of a row; f holds what the row and the store gave
ArbResult(sku, f, costPrice, netRevenue, profit, fileName, day) ==
    [ productCode |-> sku,
      tagPrice |-> f.tagPrice,
      costPrice |-> costPrice,
      marketPrice |-> f.marketPrice,
      netRevenue |-> netRevenue,
      profit |-> profit,
      roi |-> Roi(costPrice, f.marketPrice, profit),
      supplierName |-> f.sales.supplierName,
      supplierDate |-> day,
      supplierSourceFile |-> fileName,
      salesVolume |-> f.sales.salesVolume,
      salesHistory |-> f.sales.salesHistory,
      inventoryCount |-> f.invCount,
      futureCount |-> f.futureCount ]

\* the financials, of cost price and net revenue
ArbFinancials(sku, f, costPrice, netRevenue, fileName, day) ==
    ArbResult(sku, f, costPrice, netRevenue, Profit(f.marketPrice, netRevenue, costPrice),
              fileName, day)

ArbPriced(sku, f, fileName, day) ==
    ArbFinancials(sku, f, CostPrice(f.tagPrice, f.effectiveDiscount),
                  NetRevenue(f.marketPrice), fileName, day)

\* the body of the row loop for a row of product code sku
ArbSku(sku, row, cols, masterData, fileName, day) ==
    ArbPriced(sku,
              [ tagPrice |-> OrElse(parseFloat(String(Cell(row, cols.tagPriceIdx))), 0),
                marketPrice |-> MarketPrice(Matches(masterData, sku, MARKET)),
                invCount |-> SumSales(Matches(masterData, sku, INVENTORY)),
                futureCount |-> SumSales(Matches(masterData, sku, FUTURE)),
                effectiveDiscount |-> EffectiveDiscount(row, cols),
                sales |-> SalesOf(row, cols, masterData, sku, fileName, day) ],
              fileName, day)

\* the body of the row loop: Null for a skipped row
ArbRow(row, cols, masterData, fileName, day) ==
    IF Falsy(Cell(row, cols.skuIdx)) \/ cleanProductCode(Cell(row, cols.skuIdx)) = <<>>
    THEN Null
    ELSE ArbSku(cleanProductCode(Cell(row, cols.skuIdx)), row, cols, masterData,
                fileName, day)

\* the comparison turned around
BetterLower(result, existing) == result.profit < existing.profit

\* result.profit > existing.profit
Better(result, existing) == result.profit > existing.profit

\* the grouping by SKU: the Map keeps the place of the first row of a SKU
SkuMapSet(skuMap, result) ==
    LET at == {i \in 1..Len(skuMap) : skuMap[i].productCode = result.productCode}
        i == CHOOSE k \in at : TRUE
    IN IF at = {} THEN Append(skuMap, result)
       ELSE IF Better(result, skuMap[i]) THEN [skuMap EXCEPT ![i] = result] ELSE skuMap

\* skuMap, matchCount and the history field after a row that gave result
ArbKeep(acc, i, result, effectiveDiscount) ==
    IF result = Null THEN acc
    ELSE [skuMap |-> SkuMapSet(acc.skuMap, result),
          matchCount |-> IF result.marketPrice > 0 THEN acc.matchCount + 1
                         ELSE acc.matchCount,
          rowResults |-> Append(acc.rowResults,
                                [row |-> i,
                                 effectiveDiscount |-> effectiveDiscount,
                                 result |-> result])]

\* rows i.. of the loop (0-based i); acc holds skuMap, matchCount and, as a
\* history field, the index, result and effective discount of every row kept
RECURSIVE ArbLoop(_, _, _, _, _, _, _)
ArbLoop(acc, rawData, i, cols, masterData, fileName, day) ==
    IF i >= Len(rawData) THEN acc
    ELSE ArbLoop(ArbKeep(acc, i, ArbRow(rawData[i + 1], cols, masterData, fileName, day),
                         EffectiveDiscount(rawData[i + 1], cols)),
                 rawData, i + 1, cols, masterData, fileName, day)

\* the end of a run whose row loop left done
ArbDone(done) ==
    IF Len(done.skuMap) = 0
    THEN [kind |-> "noRows", rowResults |-> <<>>]
    ELSE [kind |-> "ok",
          finalResults |-> StableSort(done.skuMap, compareProfit),
          matchCount |-> done.matchCount,
          rowResults |-> done.rowResults]

\* the run refused only when both columns are missing
ArbColumnsBoth(rawData, headerRowIndex, cols, masterData, fileName, day) ==
    IF cols.skuIdx = -1 /\ cols.tagPriceIdx = -1
    THEN [kind |-> "noHeader", rowResults |-> <<>>]
    ELSE ArbDone(ArbLoop([skuMap |-> <<>>, matchCount |-> 0, rowResults |-> <<>>],
                         rawData, headerRowIndex + 1, cols, masterData, fileName, day))

\* the run from the header row on, with the columns detected
ArbColumns(rawData, headerRowIndex, cols, masterData, fileName, day) ==
    IF cols.skuIdx = -1 \/ cols.tagPriceIdx = -1
    THEN [kind |-> "noHeader", rowResults |-> <<>>]
    ELSE ArbDone(ArbLoop([skuMap |-> <<>>, matchCount |-> 0, rowResults |-> <<>>],
                         rawData, headerRowIndex + 1, cols, masterData, fileName, day))

ArbHeader(rawData, headerRowIndex, masterData, fileName, day) ==
    ArbColumns(rawData, headerRowIndex, detectColumns(HeaderRow(rawData, headerRowIndex)),
               masterData, fileName, day)

\* what a run of processArbitrage arrives at once the sheet is read
ArbOutcome(rawData, fileName, masterData, day) ==
    IF Len(rawData) = 0 THEN [kind |-> "failed", rowResults |-> <<>>]
    ELSE ArbHeader(rawData, findHeaderRow(rawData), masterData, fileName, day)

----------------------------------------------------------------------------
(* ArbitrageAnalyzer: inputs *)


\* the purchase sheets a user can select
\*   p.xlsx  SKU, tag price, discount; a SKU on two rows, an unparseable tag
\*   q.xlsx  SKU, tag price, sales; a row without SKU, a negative tag price
\*           with the number -2.5 for sales
\*   r.xlsx  no tag price column
\*   s.xlsx  no rows at all
\*   t.xlsx  a header and no row with a SKU
\*   u.xlsx  a title row, then SKU, tag price, discount, sales; tag price as
\*           text, discount 0 and discount text
PurchaseSheets ==
    [ p |-> [ name |-> "p.xlsx",
              rawData |-> << <<Str(<<"huo", "hao">>), Str(<<"pai", "jia">>),
                               Str(<<"zhe", "kou">>)>>,
                             <<Str(<<"A", "3">>), Num(10000), Num(50)>>,
                             <<Str(<<" ", "a", "3", " ">>), Num(10000), Num(36)>>,
                             <<Str(<<"A", "B", "1">>), Num(5000)>>,
                             <<Str(<<"A", "B", "1">>), Num(0)>>,
                             <<Str(<<"A", "9">>), Str(<<"a", "b", "c">>), Num(36)>>,
                             <<Str(<<"A", "9">>), Num(2000), Num(36)>> >> ],
      q |-> [ name |-> "q.xlsx",
              rawData |-> << <<Str(<<"S", "K", "U">>), Str(<<"yuan", "jia">>),
                               Str(<<"xiao", "liang">>)>>,
                             <<Str(<<"A", "2">>), Num(10000), Str(<<"5", "0", "+">>)>>,
                             <<Undef, Num(1000), Num(10)>>,
                             <<Str(<<"A", "3">>), Num(30000), Str(<<" ">>)>>,
                             <<Str(<<"A", "B", "1">>), Num(0)>>,
                             <<Str(<<"A", "7">>), Num(-10000), Num(-25)>> >> ],
      r |-> [ name |-> "r.xlsx",
              rawData |-> << <<Str(<<"huo", "hao">>), Str(<<" ", "jia", "ge">>)>>,
                             <<Str(<<"A", "3">>), Num(10000)>> >> ],
      s |-> [ name |-> "s.xlsx", rawData |-> << >> ],
      t |-> [ name |-> "t.xlsx",
              rawData |-> << <<Str(<<"S", "K", "U">>), Str(<<"M", "S", "R", "P">>)>>,
                             <<Str(<<" ">>), Num(10000)>>,
                             <<Num(0), Num(10000)>> >> ],
      u |-> [ name |-> "u.xlsx",
              rawData |-> << <<Str(<<"2", "0", "2", "5">>)>>,
                             <<Str(<<"kuan", "hao">>), Str(<<"fa", "shou", "jia">>),
                               Str(<<"D", "i", "s", "c", "o", "u", "n", "t">>),
                               Str(<<"S", "a", "l", "e", "s">>)>>,
                             <<Str(<<"A", "B", "1">>), Str(<<"1", "0", "0", "0">>), Num(0),
                               Num(500)>>,
                             <<Str(<<"A", "3">>), Num(10000), Str(<<"x">>)>>,
                             <<Str(<<"a", "b", "1">>), Num(10000), Num(-20), Str(<<"0">>)>> >> ] ]

PurchaseKeys == DOMAIN PurchaseSheets

\* the records an import of sheet key under a mapping leaves in the store
ImportedSheet(file, map, platform, type, day) ==
    InBatch(extractRecords(file.rawData, findHeaderRow(file.rawData), map, file.name,
                           platform, type, day).records, 0)
Imported(key, map, platform, type, day) == ImportedSheet(Sheets[key], map, platform, type, day)

SkuPrice == [sku |-> 0, size |-> -1, price |-> 1, discount |-> -1, sales |-> -1]
SkuOnly == [sku |-> 0, size |-> -1, price |-> -1, discount |-> -1, sales |-> -1]
SkuPriceSales == [sku |-> 0, size |-> -1, price |-> 1, discount |-> -1, sales |-> 2]

\* the manual entry of SKU a2 at price -5
ManualA2(platform, type, day) ==
    ManualRecord(ManualRow(<<" ", "a", "2">>, Str(<<"-", "5">>), Str(<<"3", ".", "6">>),
                           Str(<<"7">>)), platform, type, day, 0)

\* a supplier sheet with a row per size: the rows of a SKU differ in sales
SizesSheet ==
    [ name |-> "g.xlsx",
      rawData |-> << <<Str(<<"S", "K", "U">>), Str(<<"zhe", "kou">>),
                       Str(<<"lei", "ji", "xiao", "liang">>)>>,
                     <<Str(<<"A", "B", "1">>), Num(36), Str(<<"3", "0", "+">>)>>,
                     <<Str(<<"A", "B", "1">>), Num(36), Num(800)>>,
                     <<Str(<<"A", "B", "1">>), Num(36), Num(10)>>,
                     <<Str(<<"A", "3">>), Num(50), Num(5)>> >> ]
SkuDiscountSales == [sku |-> 0, size |-> -1, price |-> -1, discount |-> 1, sales |-> 2]

\* record stores the data centre can hand to the analyzer
Stores ==
    { <<>>,
      Imported("a", FileInfo["a"].autoMap, "Dewu", MARKET, Today),
      Imported("a", FileInfo["a"].autoMap, "Dewu", MARKET, Today)
        \o Imported("b", SkuPrice, "Dewu", MARKET, Today),
      Imported("b", SkuPrice, "Tianma", SUPPLIER, Today)
        \o Imported("b", SkuOnly, "Nice", MARKET, Today)
        \o Imported("b", SkuPrice, "Dewu", MARKET, Today),
      Imported("b", SkuPrice, "Dewu", MARKET, Today)
        \o Imported("d", FileInfo["d"].autoMap, "Tianma", SUPPLIER, Today)
        \o Imported("d", FileInfo["d"].autoMap, "Tianma", INVENTORY, Today)
        \o Imported("d", FileInfo["d"].autoMap, "Adidas", FUTURE, Today),
      Imported("d", SkuPrice, "Dewu", MARKET, Today)
        \o Imported("d", FileInfo["d"].autoMap, "Tianma", INVENTORY, Today)
        \o Imported("d", FileInfo["d"].autoMap, "Dewu", INVENTORY, Today),
      Imported("a", SkuPrice, "Tianma", FUTURE, Today)
        \o <<ManualA2("Tianma", SUPPLIER, Today)>>
        \o Imported("b", SkuPrice, "Dewu", MARKET, Today),
      <<ManualA2("Dewu", MARKET, Today)>>
        \o Imported("a", FileInfo["a"].autoMap, "Dewu", MARKET, Today)
        \o Imported("d", FileInfo["d"].autoMap, "Tianma", SUPPLIER, Today),
      Imported("d", FileInfo["d"].autoMap, "Tianma", SUPPLIER, Today - 1)
        \o Imported("d", SkuPriceSales, "Tianma", MARKET, Today),
      ImportedSheet(SizesSheet, SkuDiscountSales, "Tianma", SUPPLIER, Today - 1)
        \o ImportedSheet(SizesSheet, SkuDiscountSales, "Tianma", SUPPLIER, Today)
        \o ImportedSheet(SizesSheet, SkuDiscountSales, "Dewu", INVENTORY, Today) }

----------------------------------------------------------------------------
(* ArbitrageAnalyzer: handlers *)

\* processArbitrage up to its await: the upload button is disabled while a
\* run is loading; the closure holds the masterData of this render.  stale
\* is a history field of a call awaiting its response: a run has started
\* since the message was sent
processArbitrageStart(key) ==
    /\ ~loading
    /\ loading' = TRUE
    /\ errorMsg' = Null
    /\ chatHistory' = <<>>
    /\ chatInstance' = Null
    /\ results' = <<>>
    /\ rowResults' = <<>>
    /\ arbRun' = [file |-> key, masterData |-> data]
    /\ chatReqs' = [k \in 1..Len(chatReqs) |-> [chatReqs[k] EXCEPT !.stale = TRUE]]
    /\ UNCHANGED <<dmVars, chatInput, isChatting, exported>>

ArbRead(file, masterData) == ArbOutcome(file.rawData, file.name, masterData, Today)

\* what the run sets once it has arrived at out
ArbCommit(out, chatOk) ==
    /\ rowResults' = out.rowResults
    /\ IF out.kind = "ok"
       THEN /\ results' = out.finalResults
            /\ errorMsg' = Null
            /\ chatInstance' = IF out.matchCount > 0 /\ chatOk
                               THEN [context |-> out.finalResults] ELSE Null
            /\ chatHistory' =
                 <<[role |-> "model",
                    kind |-> IF out.matchCount = 0 THEN "noMarketPrice"
                             ELSE IF chatOk THEN "ready" ELSE "initFailed"]>>
       ELSE /\ errorMsg' = [kind |-> out.kind]
            /\ UNCHANGED <<results, chatInstance, chatHistory>>

\* processArbitrage after readExcelFile resolved; chatOk: createDataAnalysisChat
\* returned rather than threw
processArbitrageFinish(chatOk) ==
    /\ arbRun # Null
    /\ ArbCommit(ArbRead(PurchaseSheets[arbRun.file], arbRun.masterData), chatOk)
    /\ loading' = FALSE
    /\ arbRun' = Null
    /\ UNCHANGED <<dmVars, chatVars, exported>>

\* what the user can type into the chat input, and what the assistant can
\* answer (response.text may be empty)
ChatTexts == {<<>>, <<" ">>, <<"h", "i">>}
Replies == {<<>>, <<"o", "k">>}

\* user messages a chat history may come to hold
MaxMessages == 2

UserMessages(history) == Len(SelectSeq(history, LAMBDA msg : msg.role = "user"))

\* the input and the send button enabled while chatting as well
InputAlwaysEnabled == TRUE

\* the input and the send button of the chat panel are disabled while chatting
InputEnabled == ~isChatting

\* the chat panel is rendered with results
setChatInput(text) ==
    /\ Len(results) > 0
    /\ InputEnabled
    /\ chatInput' = text
    /\ UNCHANGED <<dmVars, results, loading, errorMsg, chatInstance, chatHistory, arbRun,
                   rowResults, isChatting, chatReqs, exported>>

\* handleSendMessage up to its await
handleSendMessage ==
    /\ Len(results) > 0
    /\ InputEnabled
    /\ trim(chatInput) # <<>>
    /\ chatInstance # Null
    /\ UserMessages(chatHistory) < MaxMessages
    /\ chatInput' = <<>>
    /\ chatHistory' = Append(chatHistory, [role |-> "user", kind |-> "text", text |-> chatInput])
    /\ isChatting' = TRUE
    /\ chatReqs' = Append(chatReqs, [message |-> chatInput, chat |-> chatInstance,
                                     stale |-> FALSE])
    /\ UNCHANGED <<dmVars, results, loading, errorMsg, chatInstance, arbRun, rowResults,
                   exported>>

\* the failure kept to itself
ChatFailedSilently(history, req) == history

\* the catch branch of handleSendMessage, for the call req; the message
\* keeps the history field stale of the call
ChatFailed(history, req) ==
    Append(history, [role |-> "model", kind |-> "error", stale |-> req.stale])

\* the try branch: response.text || "no reply"
ChatReplied(history, req, reply) ==
    Append(history, [role |-> "model", kind |-> "reply", stale |-> req.stale,
                     text |-> IF reply = <<>> THEN <<"wu", "hui", "fu">> ELSE reply])

\* the sequence without its k-th element
Without(seq, k) == SubSeq(seq, 1, k - 1) \o SubSeq(seq, k + 1, Len(seq))

\* the finally clause, of the k-th call awaiting its response
ChatSettled(k) ==
    /\ isChatting' = FALSE
    /\ chatReqs' = Without(chatReqs, k)
    /\ UNCHANGED <<dmVars, results, loading, errorMsg, chatInstance, chatInput, arbRun,
                   rowResults, exported>>

\* handleSendMessage after sendMessage resolved
sendMessageResolved(k, reply) ==
    /\ k \in 1..Len(chatReqs)
    /\ chatHistory' = ChatReplied(chatHistory, chatReqs[k], reply)
    /\ ChatSettled(k)

\* handleSendMessage after sendMessage threw
sendMessageRejected(k) ==
    /\ k \in 1..Len(chatReqs)
    /\ chatHistory' = ChatFailed(chatHistory, chatReqs[k])
    /\ ChatSettled(k)

\* the key of a history entry; the code joins the three with '#' and splits
\* the key again, which gives the three back as no name holds a '#'
HistoryKey(h) == [date |-> h.date, platform |-> h.platform, file |-> h.file]

\* dynamicKeys.add(key): a Set keeps its elements in the order they came
AddKey(keys, key) ==
    IF \E n \in 1..Len(keys) : keys[n] = key THEN keys ELSE Append(keys, key)

RECURSIVE KeysOfHistory(_, _)
KeysOfHistory(keys, history) ==
    IF Len(history) = 0 THEN keys
    ELSE KeysOfHistory(AddKey(keys, HistoryKey(history[1])), Tail(history))

RECURSIVE DynamicKeys(_, _)
DynamicKeys(keys, rs) ==
    IF Len(rs) = 0 THEN keys
    ELSE DynamicKeys(KeysOfHistory(keys, rs[1].salesHistory), Tail(rs))

\* dateA.localeCompare(dateB), of ISO dates
compareKeyDate(a, b) == a.date - b.date

\* the name of the column of a key
HeaderName(key) ==
    IF key.platform = "upload" THEN <<"upload sales [", key.file, "]">>
    ELSE <<key.platform, "-", key.file>>

\* match ? match.sales : '', match being the first entry found of the key
FoundSales(history, at) == IF at = {} THEN Str(<<>>) ELSE Num(history[MinOf(at)].sales)
MatchSales(history, key) ==
    FoundSales(history, {n \in 1..Len(history) : HistoryKey(history[n]) = key})

\* baseRow[name] = value: a property of that name keeps its place
SetColumn(cells, name, value) ==
    IF \E n \in 1..Len(cells) : cells[n].name = name
    THEN [n \in 1..Len(cells) |->
             IF cells[n].name = name THEN [name |-> name, value |-> value] ELSE cells[n]]
    ELSE Append(cells, [name |-> name, value |-> value])

\* sortedKeys.forEach over the row
RECURSIVE FillDynamic(_, _, _)
FillDynamic(cells, history, keys) ==
    IF Len(keys) = 0 THEN cells
    ELSE FillDynamic(SetColumn(cells, HeaderName(keys[1]), MatchSales(history, keys[1])),
                     history, Tail(keys))

\* x.toFixed(2) of an amount in thousandths, in hundredths
toFixed2(x) == IF x >= 0 THEN (x + 5) \div 10 ELSE -((5 - x) \div 10)

\* the fixed columns of a result (roi to the precision the result keeps it with)
BaseRow(r) ==
    << [name |-> <<"sku">>, value |-> r.productCode],
       [name |-> <<"tagPrice">>, value |-> r.tagPrice],
       [name |-> <<"discount">>,
        value |-> IF r.costPrice > 0 /\ r.tagPrice > 0
                  THEN toFixed2((r.costPrice * 100) \div r.tagPrice) ELSE 1000],
       [name |-> <<"cost">>, value |-> toFixed2(r.costPrice)],
       [name |-> <<"market">>,
        value |-> IF r.marketPrice = 0 THEN "unmatched" ELSE r.marketPrice],
       [name |-> <<"netRevenue">>, value |-> toFixed2(r.netRevenue)],
       [name |-> <<"profit">>, value |-> toFixed2(r.profit)],
       [name |-> <<"roi">>, value |-> toFixed2(r.roi * 100)],
       [name |-> <<"source">>, value |-> r.supplierName],
       [name |-> <<"sourceFile">>, value |-> r.supplierSourceFile],
       [name |-> <<"inventory">>, value |-> r.inventoryCount],
       [name |-> <<"futures">>, value |-> r.futureCount] >>

\* the number of fixed columns
FixedColumns == 12

\* exportData, with the results it was made of
ExportData(rs, sortedKeys) ==
    [ results |-> rs,
      rows |-> [n \in 1..Len(rs) |->
                   FillDynamic(BaseRow(rs[n]), rs[n].salesHistory, sortedKeys)] ]

\* the export button is rendered with results
downloadCSV ==
    /\ Len(results) > 0
    /\ exported' = ExportData(results, StableSort(DynamicKeys(<<>>, results), compareKeyDate))
    /\ UNCHANGED <<dmVars, results, loading, errorMsg, chatInstance, chatHistory, arbRun,
                   rowResults, chatVars>>

ArbInit ==
    /\ results = <<>>
    /\ loading = FALSE
    /\ errorMsg = Null
    /\ chatInstance = Null
    /\ chatHistory = <<>>
    /\ chatInput = <<>>
    /\ isChatting = FALSE
    /\ arbRun = Null
    /\ rowResults = <<>>
    /\ chatReqs = <<>>
    /\ exported = Null

----------------------------------------------------------------------------
(* Specifications *)

DmInit ==
    /\ selectedPlatform = "Tianma"
    /\ selectedType = SUPPLIER
    /\ pendingFiles = <<>>
    /\ currentMappingFile = Null
    /\ savedMappings = <<>>
    /\ message = Null
    /\ alertText = Null
    /\ isConfirmingClear = FALSE
    /\ errors = <<>>
    /\ files = <<>>
    /\ runs = <<>>
    /\ clicks = 0

\* the data centre, from an empty store
Init == data = <<>> /\ DmInit /\ ArbInit

Next ==
    \/ \E fs \in Batches : handleFileUpload(fs)
    \/ \E cm \in ColMappings, rm \in BOOLEAN : handleConfirmMapping(cm, rm)
    \/ handleSkipFile
    \/ \E rows \in ManualForms : saveManualData(rows)
    \/ handleClearRequest
    \/ handleConfirmClear
    \/ handleCancelClear
    \/ \E p \in Platforms : setSelectedPlatform(p)
    \/ \E t \in DataType : setSelectedType(t)

Spec == Init /\ [][Next]_vars

\* the analyzer, over a store the data centre left
InitArb == data \in Stores /\ DmInit /\ ArbInit

NextArb ==
    \/ \E key \in PurchaseKeys : processArbitrageStart(key)
    \/ \E chatOk \in BOOLEAN : processArbitrageFinish(chatOk)
    \/ \E text \in ChatTexts : setChatInput(text)
    \/ handleSendMessage
    \/ \E k \in 1..Len(chatReqs), reply \in Replies : sendMessageResolved(k, reply)
    \/ \E k \in 1..Len(chatReqs) : sendMessageRejected(k)
    \/ downloadCSV

SpecArb == InitArb /\ [][NextArb]_vars

----------------------------------------------------------------------------
(* Properties of the matching run (SpecArb) *)

ResultSet == Range(results)
RowSet == Range(rowResults)
Unmatched(r) == ~(r.marketPrice > 0)

\* C1: a result whose market price is 0 has profit equal to the negated
\* cost price and ROI 0.
C1_NoMarketPrice ==
    \A r \in ResultSet : r.marketPrice = 0 => r.profit = -r.costPrice /\ r.roi = 0

\* a run kept the unmatched row of tag price 1000 at discount 3.6: cost 360
C1_Witness ==
    \E r \in ResultSet : r.marketPrice = 0 /\ r.costPrice = 360000 /\ r.profit = -360000

\* C2: the results hold exactly one result per product code of the rows
\* kept, and its profit is the largest profit of that product code's rows.
C2_OnePerSku ==
    /\ {r.productCode : r \in ResultSet} = {w.result.productCode : w \in RowSet}
    /\ \A i, j \in 1..Len(results) :
          results[i].productCode = results[j].productCode => i = j
    /\ \A r \in ResultSet :
          /\ \E w \in RowSet : w.result.productCode = r.productCode
                               /\ w.result.profit = r.profit
          /\ \A w \in RowSet : w.result.productCode = r.productCode
                               => w.result.profit <= r.profit

\* a product code on two rows, the later row with the higher profit, and
\* the result carries the later row's profit
C2_Witness ==
    \E i, j \in 1..Len(rowResults) :
        /\ i < j
        /\ rowResults[i].result.productCode = rowResults[j].result.productCode
        /\ rowResults[i].result.profit < rowResults[j].result.profit
        /\ \E r \in ResultSet : r.productCode = rowResults[j].result.productCode
                                /\ r.profit = rowResults[j].result.profit

\* C3: the results are in descending order of profit.
C3_SortedByProfit ==
    \A i \in 1..(Len(results) - 1) : results[i].profit >= results[i + 1].profit

\* three results of three different profits whose best was not the first row
C3_Witness ==
    /\ Len(results) >= 3
    /\ results[1].profit > results[2].profit
    /\ results[2].profit > results[3].profit
    /\ results[1].productCode # rowResults[1].result.productCode

\* C4: a row with market price m > 0, tag price t and effective discount d
\* has cost t*d/10, net revenue 0.88*m, profit net revenue - cost and ROI
\* profit/cost when cost > 0, else 0; t = 1000, d = 3.6, m = 2000 give
\* 360, 1760 and 1400.
C4_Figures ==
    \A w \in RowSet :
        LET r == w.result
            d == w.effectiveDiscount
        IN r.marketPrice > 0 =>
             /\ r.costPrice = r.tagPrice * d
             /\ r.netRevenue = 88 * r.marketPrice
             /\ r.profit = r.netRevenue - r.costPrice
             /\ r.roi = IF r.costPrice > 0 THEN (r.profit * 1000) \div r.costPrice ELSE 0
             /\ (r.tagPrice = 10000 /\ d = 36 /\ r.marketPrice = 20000
                   => r.costPrice = 360000 /\ r.netRevenue = 1760000
                      /\ r.profit = 1400000 /\ r.roi = 3888)

\* the row of the example, and a matched row of cost 0
C4_Witness ==
    /\ \E w \in RowSet : w.result.tagPrice = 10000 /\ w.effectiveDiscount = 36
                         /\ w.result.marketPrice = 20000
    /\ \E w \in RowSet : w.result.marketPrice > 0 /\ w.result.costPrice <= 0

\* C5 as claimed: every result without a market price has a strictly
\* negative profit.
C5_AlwaysALoss == \A r \in ResultSet : Unmatched(r) => r.profit < 0

\* C5 amended: a row without a market price has profit equal to the
\* negated cost price, tag price times effective discount over 10; it is
\* strictly negative exactly when that cost is positive.
C5_LossEqualsCost ==
    \A w \in RowSet :
        Unmatched(w.result) =>
            /\ w.result.profit = -(w.result.tagPrice * w.effectiveDiscount)
            /\ w.result.profit < 0 <=> w.result.tagPrice * w.effectiveDiscount > 0

\* rows without a market price: one at a loss, one with an unparseable tag
\* price and profit 0
C5_Witness ==
    /\ \E w \in RowSet : Unmatched(w.result) /\ w.result.profit < 0
    /\ \E w \in RowSet : Unmatched(w.result) /\ w.result.tagPrice = 0
                         /\ w.result.profit = 0

----------------------------------------------------------------------------
(* Properties of the data centre (Spec) *)

Stored == Range(data)
Readable(key) == ~FileInfo[key].empty
Remembered(saved, key) == FindSaved(saved, FileInfo[key].headerSignature)

\* C6: every market-price record of the store has a price read from a
\* price cell that was present, and the price is not negative.
C6_MarketPriceRead ==
    \A r \in Stored : r.dataType = MARKET => r.priceSrc # "default" /\ r.price >= 0

\* C7: the records of a channel and category in the store all come from the
\* latest upload for that channel and category: beside a record a file
\* import left, no record of an earlier upload or entry remains.
C7_OnlyLatestUpload ==
    \A r1, r2 \in Stored :
        r1.platform = r2.platform /\ r1.dataType = r2.dataType
        /\ r2.sourceFile # ManualEntry
        => r1.batch >= r2.batch

\* C8: every problem the last upload or confirmation collected is shown,
\* in the message of the page or in the alert.
C8_ProblemsShown ==
    \A k \in 1..Len(errors) :
        \/ message # Null /\ message.kind = "problems"
           /\ \E j \in 1..Len(message.errors) : message.errors[j] = errors[k]
        \/ alertText # Null /\ alertText.kind = "problems"
           /\ \E j \in 1..Len(alertText.problems) : alertText.problems[j] = errors[k]

\* what extraction makes of sheet key under a mapping, for the selected
\* channel and category, as records of the upload the last handler ran
ExtractedThen(key, map) ==
    Range(InBatch(ExtractTable[key, map, selectedPlatform, selectedType].records,
                  clicks - 1))

Queued(i) == \E q \in Range(pendingFiles) : q.id = i

\* the upload just run extracted every file with a remembered signature
\* under the remembered mapping and queued none of them
UploadUsedRemembered ==
    \A i \in 1..Len(files) :
        Readable(files[i]) /\ Remembered(savedMappings, files[i]) # Null =>
            /\ ~Queued(i)
            /\ ExtractedThen(files[i], Remembered(savedMappings, files[i]).map) \subseteq Stored

\* C9: a remembered signature stays remembered, and an upload extracts a
\* sheet of a remembered signature at once under the remembered mapping,
\* whatever the category and whatever columns the mapping lacks.
C9_RememberedIsTrusted ==
    /\ []UploadUsedRemembered
    /\ [][\A key \in FileKeys :
             Readable(key) /\ Remembered(savedMappings, key) # Null
             => Remembered(savedMappings', key) # Null]_vars

\* a market-price upload just went through without a queue, under a
\* remembered mapping that has no price column
C9_Witness ==
    /\ selectedType = MARKET
    /\ files # <<>>
    /\ pendingFiles = <<>>
    /\ \E r \in Stored, key \in FileKeys :
          /\ r.sourceFile = Sheets[key].name /\ r.batch = clicks - 1
          /\ r.dataType = MARKET /\ r.priceSrc = "default"
          /\ Readable(key) /\ Remembered(savedMappings, key) # Null
          /\ Remembered(savedMappings, key).map.price = -1

\* the completeness rule as the claim words it
Acceptable(colMap, type) ==
    /\ colMap.sku # -1
    /\ type # MARKET \/ colMap.price # -1
    /\ type \notin {INVENTORY, FUTURE} \/ colMap.sales # -1

\* the upload just run queued exactly the files without remembered mapping
\* whose detected mapping is not acceptable, and stored the records of the
\* others only
UploadHonouredCheck ==
    \A i \in 1..Len(files) :
        Readable(files[i]) /\ Remembered(savedMappings, files[i]) = Null =>
            LET fromFile == {r \in Stored : r.sourceFile = Sheets[files[i]].name
                                            /\ r.batch = clicks - 1}
            IN /\ Queued(i) <=> ~Acceptable(FileInfo[files[i]].autoMap, selectedType)
               /\ Queued(i) => fromFile = {}
               /\ ~Queued(i) => fromFile = ExtractedThen(files[i], FileInfo[files[i]].autoMap)

\* no record of a file that still awaits its mapping is in the store
QueuedHasNoRecords ==
    \A k \in 1..Len(pendingFiles) :
        \A r \in Stored : ~(r.sourceFile = Sheets[pendingFiles[k].file].name
                            /\ r.batch = pendingFiles[k].batch)

\* C10: without a remembered mapping a file is extracted at once exactly
\* when its detected mapping is acceptable; otherwise it is queued, and a
\* queued file has no record in the store.
C10_AutoIffComplete == UploadHonouredCheck /\ QueuedHasNoRecords

\* one batch of which a file was stored at once and another is queued
C10_Witness ==
    /\ files # <<>>
    /\ Len(pendingFiles) > 0
    /\ \E r \in Stored : r.batch = pendingFiles[1].batch /\ r.sourceFile # ManualEntry

\* C11: every mapping extractRecords is run with, be it detected, remembered
\* or confirmed in the dialog, has a SKU column index; so has, in particular,
\* every mapping whose run produced records.
C11_SkuColumnPresent == \A k \in 1..Len(runs) : runs[k].map.sku # -1

\* one upload extracted records from a file under a remembered mapping (a
\* confirmation came before) and from another under its detected mapping
C11_Witness ==
    \E i, j \in 1..Len(runs) :
        /\ runs[i].how = "remembered" /\ runs[i].produced > 0
        /\ runs[j].how = "detected" /\ runs[j].produced > 0

\* the header signatures of the sheets
Signatures == {FileInfo[key].headerSignature : key \in {k \in FileKeys : Readable(k)}}

\* the last handler was a confirmation of a sheet of signature sig, with
\* "remember" ticked
RememberedNow(sig) ==
    \E k \in 1..Len(runs) :
        runs[k].how = "confirmed" /\ runs[k].remember /\ runs[k].signature = sig

OnePerSignature ==
    \A i, j \in 1..Len(savedMappings) :
        savedMappings[i].signature = savedMappings[j].signature => i = j

\* the memory holds the mapping just confirmed, with "remember", for its signature
HoldsLatest ==
    \A k \in 1..Len(runs) :
        runs[k].how = "confirmed" /\ runs[k].remember =>
            /\ FindSaved(savedMappings, runs[k].signature) # Null
            /\ FindSaved(savedMappings, runs[k].signature).map = runs[k].map

\* C12: the mapping memory holds at most one mapping per header signature;
\* after a confirmation with "remember" it holds the mapping just confirmed
\* for that signature, also when the signature had been remembered before;
\* a step that is no such confirmation of a signature leaves what is
\* remembered for it as it was.
C12_LatestPerSignature ==
    /\ [](OnePerSignature /\ HoldsLatest)
    /\ [][\A sig \in Signatures :
             FindSaved(savedMappings', sig) # FindSaved(savedMappings, sig)
             => \E k \in 1..Len(runs') :
                   /\ runs'[k].how = "confirmed" /\ runs'[k].remember
                   /\ runs'[k].signature = sig]_vars

\* a signature remembered before was confirmed again with another mapping,
\* and the memory holds that one
C12_Witness ==
    \E m \in Range(savedMappings) :
        /\ m.replaced
        /\ RememberedNow(m.signature)
        /\ m.map.price = -1
        /\ \E r \in Stored : r.priceSrc = "cell" /\ r.batch = clicks - 3

\* the columns processArbitrage detects in the header row of a sheet with rows
ColumnsOf(rawData) == detectColumns(HeaderRow(rawData, findHeaderRow(rawData)))

\* the purchase sheet has no rows, or its header row has no SKU column or no
\* tag-price column that processArbitrage detects
Unusable(rawData) ==
    \/ Len(rawData) = 0
    \/ ColumnsOf(rawData).skuIdx = -1
    \/ ColumnsOf(rawData).tagPriceIdx = -1

\* C13: a matching run over a purchase sheet without rows, or whose header
\* row lacks a detectable SKU column or a detectable tag-price column, ends
\* with an error message set and an empty result list; no ArbitrageResult was
\* computed and no chat session was created.
C13_UnusableSheet ==
    [][arbRun # Null /\ arbRun' = Null /\ Unusable(PurchaseSheets[arbRun.file].rawData)
       => /\ errorMsg' # Null
          /\ results' = <<>>
          /\ rowResults' = <<>>
          /\ chatInstance' = Null
          /\ chatHistory' = chatHistory
          /\ ~loading']_vars

\* a run over a sheet with a SKU column and no tag-price column has ended
C13_Witness ==
    /\ arbRun = Null /\ ~loading
    /\ errorMsg # Null /\ errorMsg.kind = "noHeader"
    /\ \E r \in Range(data) : r.dataType = MARKET

\* a message can be sent once one is typed
CanSend == Len(results) > 0 /\ ~isChatting /\ chatInstance # Null

\* C14: when a request to the assistant fails, exactly one chat message, the
\* one reporting the failure, is appended to the chat history, the result
\* list and the chat session are as they were, and the chat is no longer
\* waiting: where a session and results are there, a new message can be sent.
C14_FailureIsOneMessage ==
    [][(\E k \in 1..Len(chatReqs) : sendMessageRejected(k))
       => /\ Len(chatHistory') = Len(chatHistory) + 1
          /\ SubSeq(chatHistory', 1, Len(chatHistory)) = chatHistory
          /\ chatHistory'[Len(chatHistory')].role = "model"
          /\ chatHistory'[Len(chatHistory')].kind = "error"
          /\ results' = results
          /\ chatInstance' = chatInstance
          /\ ~isChatting'
          /\ (Len(results) > 0 /\ chatInstance # Null => CanSend')]_vars

\* a request failed: its message is the last of the history, after the
\* user's, and the chat is idle again
C14_Witness ==
    /\ Len(chatHistory) >= 3
    /\ chatHistory[Len(chatHistory)].kind = "error"
    /\ chatHistory[Len(chatHistory) - 1].role = "user"
    /\ CanSend
    /\ chatReqs = <<>>

----------------------------------------------------------------------------
(* Record extraction, row by row, over the runs the handlers make *)

\* the rows (0-based indices) the loop of extractRecords goes over in sheet key
RowsOfSheet(key) == (FileInfo[key].headerIndex + 1)..(Len(Sheets[key].rawData) - 1)

NonNumeric(c) == parseFloat(String(c)).nan
Negative(c) == ~NonNumeric(c) /\ parseFloat(String(c)).v < 0

\* what there is in a row under a mapping: whether it has a SKU, and what
\* its cells in the mapped price and discount columns are like
RowFacts(row, map) ==
    [ sku |-> /\ Len(row) > 0
              /\ Cell(row, map.sku) # Undef
              /\ cleanProductCode(Cell(row, map.sku)) # <<>>,
      blankPrice |-> map.price # -1 /\ Blank(Cell(row, map.price)),
      textPrice |-> /\ map.price # -1 /\ ~Blank(Cell(row, map.price))
                    /\ NonNumeric(Cell(row, map.price)),
      negativePrice |-> /\ map.price # -1 /\ ~Blank(Cell(row, map.price))
                        /\ Negative(Cell(row, map.price)),
      blankDiscount |-> map.discount # -1 /\ Blank(Cell(row, map.discount)),
      textDiscount |-> /\ map.discount # -1 /\ ~Blank(Cell(row, map.discount))
                       /\ NonNumeric(Cell(row, map.discount)) ]

\* the rows of the sheets under the mappings that occur, and what each call
\* of extractRecords that can occur returned for each row: both tabulated
Facts ==
    [key \in {k \in FileKeys : Readable(k)}, map \in MapsUsed |->
        [i \in RowsOfSheet(key) |-> RowFacts(Sheets[key].rawData[i + 1], map)]]
Returned ==
    [key \in {k \in FileKeys : Readable(k)}, map \in MapsUsed, platform \in Platforms,
     type \in DataType |->
        [i \in RowsOfSheet(key) |->
            [ problems |-> SelectSeq(ExtractTable[key, map, platform, type].errors,
                                     LAMBDA e : e.row = i + 1),
              records |-> SelectSeq(ExtractTable[key, map, platform, type].records,
                                    LAMBDA x : x.row = i) ]]]

\* the rows of a run r, and those with a SKU
RowsOf(r) == RowsOfSheet(r.key)
SkuRows(r) == {i \in RowsOf(r) : Facts[r.key, r.map][i].sku}

\* what the run recorded for, and made of, the row at index i
ProblemsOf(r, i) == Returned[r.key, r.map, r.platform, r.type][i].problems
RecordsOf(r, i) == Returned[r.key, r.map, r.platform, r.type][i].records
PriceKinds == {"priceFormat", "priceNegative", "priceMissing"}
PriceProblemsOf(r, i) == SelectSeq(ProblemsOf(r, i), LAMBDA e : e.kind \in PriceKinds)
DiscountProblemsOf(r, i) == SelectSeq(ProblemsOf(r, i), LAMBDA e : e.kind = "discountFormat")

\* the cells of the row under the mapping of the run
TextPrice(r, i) == Facts[r.key, r.map][i].textPrice
BadPrice(r, i) == Facts[r.key, r.map][i].textPrice \/ Facts[r.key, r.map][i].negativePrice
BadDiscount(r, i) == Facts[r.key, r.map][i].textDiscount
BlankPrice(r, i) == Facts[r.key, r.map][i].blankPrice
MissingPrice(r, i) == r.map.price = -1 \/ BlankPrice(r, i)

\* a row with a SKU and nothing wrong in its mapped price and discount cells
Clean(r, i) ==
    /\ i \in SkuRows(r)
    /\ ~BadPrice(r, i) /\ ~BadDiscount(r, i)
    /\ r.type = MARKET => ~MissingPrice(r, i)

\* the loop goes on after row i: the clean rows after it give their records
GoesOn(r, i) == \A j \in RowsOf(r) : j > i /\ Clean(r, j) => Len(RecordsOf(r, j)) = 1

\* C15 as stated: a row whose price cell is non-blank and non-numeric or
\* negative records exactly one validation problem; it produces no record in
\* a market-price run and a record with price 0 in a run of any other category.
C15_BadPriceRow ==
    \A k \in 1..Len(runs) : \A i \in SkuRows(runs[k]) :
        BadPrice(runs[k], i) =>
            /\ Len(ProblemsOf(runs[k], i)) = 1
            /\ IF runs[k].type = MARKET
               THEN RecordsOf(runs[k], i) = <<>>
               ELSE /\ Len(RecordsOf(runs[k], i)) = 1
                    /\ RecordsOf(runs[k], i)[1].price = 0
            /\ GoesOn(runs[k], i)

\* C15: a row whose price cell is non-blank and non-numeric or negative
\* records exactly one price problem.  In a market-price run it records no
\* other problem and produces no record.  In a supplier-discount run where
\* its discount cell is non-blank and non-numeric it records that as a
\* second problem and produces no record.  Otherwise it produces one record,
\* with price 0.  The loop goes on with the rows after it.
C15_BadPriceRowKept ==
    \A k \in 1..Len(runs) : \A i \in SkuRows(runs[k]) :
        BadPrice(runs[k], i) =>
            /\ Len(PriceProblemsOf(runs[k], i)) = 1
            /\ IF runs[k].type = MARKET
               THEN Len(ProblemsOf(runs[k], i)) = 1 /\ RecordsOf(runs[k], i) = <<>>
               ELSE IF runs[k].type = SUPPLIER /\ BadDiscount(runs[k], i)
               THEN Len(ProblemsOf(runs[k], i)) = 2 /\ RecordsOf(runs[k], i) = <<>>
               ELSE /\ Len(RecordsOf(runs[k], i)) = 1
                    /\ RecordsOf(runs[k], i)[1].price = 0
            /\ GoesOn(runs[k], i)

\* a run of another category than market-price kept a row with a price text
\* at price 0 and made a record of the row after it
C15_Witness ==
    \E k \in 1..Len(runs) : \E i \in SkuRows(runs[k]) :
        /\ TextPrice(runs[k], i)
        /\ runs[k].type # MARKET
        /\ Len(RecordsOf(runs[k], i)) = 1 /\ RecordsOf(runs[k], i)[1].price = 0
        /\ Clean(runs[k], i + 1) /\ Len(RecordsOf(runs[k], i + 1)) = 1

\* C16: in a market-price run, under whatever mapping the run is made with,
\* a row with a SKU whose price is missing (a blank cell, no cell, or no
\* price column to read it from) produces no record and records a problem.
C16_MissingPriceDropped ==
    \A k \in 1..Len(runs) : \A i \in SkuRows(runs[k]) :
        runs[k].type = MARKET /\ MissingPrice(runs[k], i) =>
            /\ RecordsOf(runs[k], i) = <<>>
            /\ Len(ProblemsOf(runs[k], i)) >= 1

\* the discount cell of the row is there to read and blank
BlankDiscount(r, i) == Facts[r.key, r.map][i].blankDiscount

\* the price validation of a market-price run ends the row
PriceDropped(r, i) ==
    r.type = MARKET /\ (BadPrice(r, i) \/ BlankPrice(r, i))

\* the records of the row, if any, have discount 10
DefaultDiscount(r, i) ==
    \A n \in 1..Len(RecordsOf(r, i)) : RecordsOf(r, i)[n].discount = 100

\* C17 as stated: a row whose discount cell is non-blank and non-numeric
\* records one discount problem; it produces no record in a supplier-discount
\* run and a record with discount 10 in a run of any other category; a row
\* with a blank discount cell gets discount 10 and no discount problem.
C17_BadDiscountRow ==
    \A k \in 1..Len(runs) : \A i \in SkuRows(runs[k]) :
        /\ BadDiscount(runs[k], i) =>
              /\ Len(DiscountProblemsOf(runs[k], i)) = 1
              /\ IF runs[k].type = SUPPLIER
                 THEN RecordsOf(runs[k], i) = <<>>
                 ELSE Len(RecordsOf(runs[k], i)) = 1 /\ DefaultDiscount(runs[k], i)
        /\ BlankDiscount(runs[k], i) =>
              /\ DiscountProblemsOf(runs[k], i) = <<>>
              /\ DefaultDiscount(runs[k], i)

\* C17: a row that the price validation of a market-price run ends records
\* no discount problem and produces no record.  Any other row whose discount
\* cell is non-blank and non-numeric records one discount problem; it
\* produces no record in a supplier-discount run and one record, with
\* discount 10, in a run of any other category.  Any other row with a blank
\* discount cell records no discount problem and produces one record, with
\* discount 10.
C17_BadDiscountRowKept ==
    \A k \in 1..Len(runs) : \A i \in SkuRows(runs[k]) :
        /\ BadDiscount(runs[k], i) \/ BlankDiscount(runs[k], i) =>
              IF PriceDropped(runs[k], i)
              THEN DiscountProblemsOf(runs[k], i) = <<>> /\ RecordsOf(runs[k], i) = <<>>
              ELSE DefaultDiscount(runs[k], i)
        /\ BadDiscount(runs[k], i) /\ ~PriceDropped(runs[k], i) =>
              /\ Len(DiscountProblemsOf(runs[k], i)) = 1
              /\ Len(RecordsOf(runs[k], i)) = IF runs[k].type = SUPPLIER THEN 0 ELSE 1
        /\ BlankDiscount(runs[k], i) /\ ~PriceDropped(runs[k], i) =>
              /\ DiscountProblemsOf(runs[k], i) = <<>>
              /\ Len(RecordsOf(runs[k], i)) = 1

\* an inventory or futures run kept a row with a discount text at discount
\* 10, with one problem
C17_Witness ==
    \E k \in 1..Len(runs) : \E i \in SkuRows(runs[k]) :
        /\ BadDiscount(runs[k], i)
        /\ runs[k].type \in {INVENTORY, FUTURE}
        /\ Len(DiscountProblemsOf(runs[k], i)) = 1
        /\ Len(RecordsOf(runs[k], i)) = 1 /\ RecordsOf(runs[k], i)[1].discount = 100

\* the purchase sheet a kept row came from, and the row's own discount cell
SheetOf(e) ==
    PurchaseSheets[CHOOSE key \in PurchaseKeys :
                       PurchaseSheets[key].name = e.result.supplierSourceFile].rawData
OwnDiscountCell(e) == Cell(SheetOf(e)[e.row + 1], ColumnsOf(SheetOf(e)).discountIdx)

\* the cell is there and parses as a number
Parseable(c) == c # Undef /\ ~parseFloat(String(c)).nan

\* C18: the effective discount of a purchase row is the value of its own
\* discount cell when the sheet has a discount column and the cell is there
\* and parses as a number, 0 included, and 10 otherwise; the cost price is the
\* tag price times that discount over 10, whatever supplier-discount records
\* the store holds.
C18_OwnDiscount ==
    \A n \in 1..Len(rowResults) :
        /\ rowResults[n].effectiveDiscount =
              IF /\ ColumnsOf(SheetOf(rowResults[n])).discountIdx # -1
                 /\ Parseable(OwnDiscountCell(rowResults[n]))
              THEN parseFloat(String(OwnDiscountCell(rowResults[n]))).v
              ELSE 100
        /\ rowResults[n].result.costPrice =
              rowResults[n].result.tagPrice * rowResults[n].effectiveDiscount

----------------------------------------------------------------------------
(* The exported table *)

\* the (date, channel, file) triples of the sales histories of the results
Entries(rs) ==
    {<<n, k>> \in (1..Len(rs)) \X (1..8) : k <= Len(rs[n].salesHistory)}
TriplesOf(rs) == {HistoryKey(rs[e[1]].salesHistory[e[2]]) : e \in Entries(rs)}

\* the triples in an order of ascending date
AscendingOrders(T) ==
    {ks \in [1..Cardinality(T) -> T] :
        /\ \A a, b \in 1..Cardinality(T) : a < b => ks[a] # ks[b] /\ ks[a].date <= ks[b].date}

\* the quantity a result has for a triple, blank when it has none
Quantity(r, key) ==
    IF \E k \in 1..Len(r.salesHistory) : HistoryKey(r.salesHistory[k]) = key
    THEN Num((CHOOSE h \in Range(r.salesHistory) : HistoryKey(h) = key).sales)
    ELSE Str(<<>>)

\* the dynamic columns of an exported row
Dynamic(row) == SubSeq(row, FixedColumns + 1, Len(row))

\* C19: the exported table has one dynamic column per distinct (date,
\* channel, file) triple of the sales histories of the results, in an order
\* of ascending date, and the value of each row in the column of a triple is
\* the quantity the result has for that triple, or blank; so two entries that
\* differ in date only have a column each.
C19_ColumnPerTriple ==
    exported # Null =>
        \E ks \in AscendingOrders(TriplesOf(exported.results)) :
            \A n \in 1..Len(exported.rows) :
                /\ Len(Dynamic(exported.rows[n])) = Len(ks)
                /\ \A c \in 1..Len(ks) :
                      Dynamic(exported.rows[n])[c].value = Quantity(exported.results[n], ks[c])

----------------------------------------------------------------------------
(* Sales quantities *)

\* a non-negative whole number
Count(v) == v >= 0 /\ v % 10 = 0

\* C20: extractSalesNum gives a non-negative whole number for every cell, and
\* so every sales quantity in the store and in a result of a matching run,
\* its sales history included, is a non-negative whole number.
C20_SalesAreCounts ==
    /\ \A r \in Range(data) : Count(r.salesNum)
    /\ \A n \in 1..Len(rowResults) :
          /\ Count(rowResults[n].result.salesVolume)
          /\ \A h \in Range(rowResults[n].result.salesHistory) : Count(h.sales)

----------------------------------------------------------------------------
(* The discount normalizer *)

\* what the claim has parseDiscount return: the number itself, the number a
\* numeric text stands for, and 10 for anything else
NumberOrTen(c) ==
    IF c.t = "num" THEN c.v
    ELSE IF c.t = "str" /\ ~parseFloat(c.s).nan THEN parseFloat(c.s).v
    ELSE 100

\* C21: parseDiscount returns the number for every numeric input, a number
\* or a numeric text, 0 included, and 10 for an absent or non-numeric one:
\* so is the effective discount of every purchase row whose discount cell
\* the matching run handed to it.
C21_ParsedDiscount ==
    \A n \in 1..Len(rowResults) :
        /\ ColumnsOf(SheetOf(rowResults[n])).discountIdx # -1
        /\ OwnDiscountCell(rowResults[n]) # Undef
        => rowResults[n].effectiveDiscount = NumberOrTen(OwnDiscountCell(rowResults[n]))

(* One request at a time *)
InFlight == Len(chatReqs)

\* C22: while a request to the assistant is outstanding the input is
\* disabled, so that no text is typed and no second request is sent: at most
\* one request is in flight at any time; and the input is enabled again in
\* the step in which the request resolves or fails
C22_OneRequestInFlight ==
    /\ [](InFlight <= 1 /\ (InFlight = 1 => isChatting))
    /\ [][/\ InFlight = 1 => InFlight' <= 1 /\ chatInput' = chatInput
          /\ InFlight' < InFlight => ~isChatting']_vars

\* a second request is outstanding after the first one was answered
C22_Witness ==
    /\ InFlight = 1
    /\ isChatting
    /\ UserMessages(chatHistory) = 2
    /\ \E n \in 1..Len(chatHistory) : chatHistory[n].role = "model"

(* What a matching run reads from the store *)
\* the places in the store of the records of a product code and a category
PlacesOf(sku, type) ==
    {i \in 1..Len(data) : data[i].productCode = sku /\ data[i].dataType = type}

\* C23: the market price of a purchase row is the price of the first record
\* in store order with the row's product code and category market-price, and
\* 0 when the store has none; no other record has a say
C23_FirstMarketRecord ==
    \A n \in 1..Len(rowResults) :
        rowResults[n].result.marketPrice =
            IF PlacesOf(rowResults[n].result.productCode, MARKET) = {} THEN 0
            ELSE data[MinOf(PlacesOf(rowResults[n].result.productCode, MARKET))].price

\* a row whose product code has market records of different prices in the
\* store, next to records of other categories
C23_Witness ==
    \E n \in 1..Len(rowResults) :
        /\ \E i, j \in PlacesOf(rowResults[n].result.productCode, MARKET) :
               i < j /\ data[i].price # data[j].price
        /\ \E i \in 1..Len(data) :
               /\ data[i].productCode = rowResults[n].result.productCode
               /\ data[i].dataType # MARKET

\* the sales counts of the records at the places P of the store, added up
RECURSIVE SalesAt(_)
SalesAt(P) == IF P = {} THEN 0 ELSE data[MinOf(P)].salesNum + SalesAt(P \ {MinOf(P)})

\* C24: the inventory quantity of a result is the sum of the sales counts of
\* the store records of its product code and category owned-inventory, its
\* futures quantity the same sum for category in-transit-futures; both are 0
\* when there is no such record
C24_InventoryAndFutures ==
    \A n \in 1..Len(rowResults) :
        /\ rowResults[n].result.inventoryCount =
               SalesAt(PlacesOf(rowResults[n].result.productCode, INVENTORY))
        /\ rowResults[n].result.futureCount =
               SalesAt(PlacesOf(rowResults[n].result.productCode, FUTURE))

\* a result whose product code has two inventory records with sales in the
\* store, and no futures record
C24_Witness ==
    \E n \in 1..Len(rowResults) :
        /\ \E i, j \in PlacesOf(rowResults[n].result.productCode, INVENTORY) :
               i < j /\ data[i].salesNum > 1 /\ data[j].salesNum > 1
        /\ PlacesOf(rowResults[n].result.productCode, FUTURE) = {}
        /\ rowResults[n].result.futureCount = 0

(* The sales history found in the store *)
\* the row has no sales figure of its own: no sales column, no cell, or a
\* blank cell
NoSalesFigure(row, salesIdx) ==
    \/ salesIdx = -1
    \/ Cell(row, salesIdx) = Undef
    \/ trim(String(Cell(row, salesIdx))) = <<>>

\* the rows (0-based) without a sales figure, of every purchase sheet that
\* a run can use: tabulated
NoSalesRows ==
    [key \in {k \in PurchaseKeys : ~Unusable(PurchaseSheets[k].rawData)} |->
        {i \in 0..(Len(PurchaseSheets[key].rawData) - 1) :
            NoSalesFigure(PurchaseSheets[key].rawData[i + 1],
                          ColumnsOf(PurchaseSheets[key].rawData).salesIdx)}]

NoOwnSales(e) ==
    e.row \in NoSalesRows[CHOOSE key \in PurchaseKeys :
                              PurchaseSheets[key].name = e.result.supplierSourceFile]

\* the places of the store records that count as sales history of a SKU
HistoryPlaces(sku) ==
    {i \in 1..Len(data) : /\ data[i].productCode = sku
                          /\ data[i].dataType \in {SUPPLIER, MARKET}
                          /\ data[i].salesNum > 0}

\* the (ingestion date, source file, channel) triple of a store record
TripleOf(d) == [date |-> d.updateDate, platform |-> d.platform, file |-> d.sourceFile]

\* the greatest sales count among the records at P of the triple key
MaxSalesOf(P, key) ==
    CHOOSE x \in {data[i].salesNum : i \in {j \in P : TripleOf(data[j]) = key}} :
        \A i \in {j \in P : TripleOf(data[j]) = key} : data[i].salesNum <= x

\* history is the sales history the claim describes for the records at P
HistoryOf(history, P) ==
    /\ Len(history) = Cardinality({TripleOf(data[i]) : i \in P})
    /\ \A i \in P : \E k \in 1..Len(history) : HistoryKey(history[k]) = TripleOf(data[i])
    /\ \A k \in 1..Len(history) :
          /\ \E i \in P : HistoryKey(history[k]) = TripleOf(data[i])
          /\ history[k].sales = MaxSalesOf(P, HistoryKey(history[k]))
    /\ \A k, l \in 1..Len(history) : k < l => history[k].date >= history[l].date

\* volume is the greatest sales count of the history, 0 for an empty one
VolumeOf(volume, history) ==
    IF history = <<>> THEN volume = 0
    ELSE /\ \E k \in 1..Len(history) : history[k].sales = volume
         /\ \A k \in 1..Len(history) : history[k].sales <= volume

\* C25: for a purchase row without a sales figure of its own, the sales
\* history has exactly one entry per distinct (date, file, channel) triple
\* among the store records of the SKU with category supplier-discount or
\* market-price and a positive sales count, each entry carries the greatest
\* sales count of its triple, the entries are ordered by date descending, and
\* the display sales volume is the greatest sales count of the entries, 0
\* when there is none
C25_HistoryPerTriple ==
    \A n \in 1..Len(rowResults) :
        NoOwnSales(rowResults[n])
        => /\ HistoryOf(rowResults[n].result.salesHistory,
                        HistoryPlaces(rowResults[n].result.productCode))
           /\ VolumeOf(rowResults[n].result.salesVolume, rowResults[n].result.salesHistory)

\* a row without a sales figure whose SKU has records of two dates in the
\* store, the older first, and two records of one triple with different
\* sales counts
C25_Witness ==
    \E n \in 1..Len(rowResults) :
        /\ NoOwnSales(rowResults[n])
        /\ \E i, j \in HistoryPlaces(rowResults[n].result.productCode) :
               i < j /\ data[i].updateDate < data[j].updateDate
        /\ \E i, j \in HistoryPlaces(rowResults[n].result.productCode) :
               /\ i < j
               /\ TripleOf(data[i]) = TripleOf(data[j])
               /\ data[i].salesNum < data[j].salesNum

(* The column guess *)
Roles == {"sku", "size", "price", "discount", "sales"}
KeywordsOf(role) ==
    CASE role = "sku" -> kwSku
      [] role = "size" -> kwSize
      [] role = "price" -> kwPrice
      [] role = "discount" -> kwDiscount
      [] role = "sales" -> kwSales

\* the 0-based indices of the header cells of a sheet that contain a keyword
\* of a role: tabulated
MatchingCells ==
    [key \in {k \in FileKeys : Readable(k)}, role \in Roles |->
        {i \in 0..(Len(Sheets[key].rawData[FileInfo[key].headerIndex + 1]) - 1) :
            \E k \in KeywordsOf(role) :
                includes(HeaderRow(Sheets[key].rawData, FileInfo[key].headerIndex)[i + 1], k)}]

\* the runs of extractRecords under the mapping guessed from the header
Detected == {k \in 1..Len(runs) : runs[k].how = "detected"}

\* C26 as stated: for every header row and every role the column mapper
\* returns the index of the first header cell that contains a keyword of the
\* role, the lowest index when several cells match, and -1 when none does
C26_FirstMatchingCell ==
    \A k \in Detected : \A role \in Roles :
        runs[k].map[role] =
            IF MatchingCells[runs[k].key, role] = {} THEN -1
            ELSE MinOf(MatchingCells[runs[k].key, role])

\* C26: for every header row and every role the column mapper returns the
\* index of the last header cell that contains a keyword of the role, the
\* highest index when several cells match, and -1 when none does
C26_LastMatchingCell ==
    \A k \in Detected : \A role \in Roles :
        IF MatchingCells[runs[k].key, role] = {} THEN runs[k].map[role] = -1
        ELSE /\ runs[k].map[role] \in MatchingCells[runs[k].key, role]
             /\ \A i \in MatchingCells[runs[k].key, role] : i <= runs[k].map[role]

\* a run under the mapping guessed from a header of which two cells match
\* one role and no cell matches another
C26_Witness ==
    \E k \in Detected :
        /\ \E role \in Roles : Cardinality(MatchingCells[runs[k].key, role]) > 1
        /\ \E role \in Roles : MatchingCells[runs[k].key, role] = {}

(* The queue of files that await their mapping *)
\* the file awaiting mapping, if there is one, is the first of the queue, and
\* there is one whenever the queue is not empty
FirstAwaits ==
    IF pendingFiles = <<>> THEN currentMappingFile = Null
    ELSE currentMappingFile = pendingFiles[1]

\* the step is a confirmation or a skip
ConfirmOrSkip ==
    \/ handleSkipFile
    \/ \E cm \in ColMappings, rm \in BOOLEAN : handleConfirmMapping(cm, rm)

Others(store) ==
    SelectSeq(store, LAMBDA r : r.platform # selectedPlatform \/ r.dataType # selectedType)

\* C28: an upload or a manual entry for the selected channel and category
\* neither removes nor changes a store record of another channel or another
\* category: a step after which the records of the other channels and
\* categories are not what they were is a confirmed full clear, so it is
\* neither an upload (which leaves files) nor a manual entry (which leaves
\* its own message); and a cancelled clear leaves the store as it is
C28_OthersKept ==
    [][/\ Others(data') # Others(data)
          => handleConfirmClear /\ files' = <<>> /\ message'.kind = "cleared"
       /\ handleCancelClear => data' = data]_vars

\* an upload has just replaced the records of the selected channel and
\* category, and the store holds an older record of another channel or
\* category
C28_Witness ==
    /\ files # <<>>
    /\ \E r1, r2 \in Stored :
          /\ r1.batch = clicks - 1
          /\ r1.sourceFile # ManualEntry
          /\ r1.platform = selectedPlatform /\ r1.dataType = selectedType
          /\ r2.batch < r1.batch
          /\ r2.platform # r1.platform \/ r2.dataType # r1.dataType

\* C30: skipping the file that awaits its mapping leaves the record store and
\* the mapping memory as they are; it takes that one file off the pending
\* queue, and the next file of the queue, if there is one, awaits its mapping
C30_SkipOnlyMovesOn ==
    [][handleSkipFile
       => /\ data' = data
          /\ savedMappings' = savedMappings
          /\ Len(pendingFiles') = Len(pendingFiles) - 1
          /\ \A k \in 1..Len(pendingFiles') : pendingFiles'[k] = pendingFiles[k + 1]
          /\ \A k \in 1..Len(pendingFiles') : pendingFiles'[k] # currentMappingFile
          /\ currentMappingFile' = IF Len(pendingFiles) > 1 THEN pendingFiles[2] ELSE Null]_vars

\* the first file of a queue of two was skipped with records in the store:
\* the second one awaits its mapping
C30_Witness ==
    /\ Len(pendingFiles) = 1
    /\ pendingFiles[1].id = 2
    /\ currentMappingFile = pendingFiles[1]
    /\ files = <<>>
    /\ runs = <<>>
    /\ alertText = Null
    /\ data # <<>>

(* The chat session of a run *)
\* the message is the reply to, or the failure of, a request that was sent
\* before the run that reset the chat started
StaleAnswer(msg) == msg.role = "model" /\ msg.kind \in {"reply", "error"} /\ msg.stale

\* C29: once the processing of a new purchase sheet has started, which
\* resets the results, the chat session and the chat history, no reply or
\* failure message of a request sent in the chat session before is ever
\* appended to the chat history, however the pending reply and the new
\* upload interleave
C29_NoStaleAnswer ==
    \A n \in 1..Len(chatHistory) : ~StaleAnswer(chatHistory[n])

====================================================================================
